---- MODULE Spec2Model ----
(***************************************************************************)
(* A model of the go-lucky lottery analyzer (lottery_analyzer.go): CSV row *)
(* parsing, the accumulation pass over the drawings, the statistics and    *)
(* chi-square passes, number scoring and recommendation selection.         *)
(*                                                                         *)
(* Text fields are sequences of one-character strings, so that parsing is  *)
(* computed and not assumed.  float64 values are exact rationals           *)
(* [nan, n, d] with d > 0 (or nan = TRUE for 0/0); math.Sqrt results       *)
(* (StandardDeviation) are not represented.                                *)
(***************************************************************************)
EXTENDS Integers, Sequences, FiniteSets, TLC

(* ------------------------------ bounds -------------------------------- *)

MaxRows == 3

(* --------------------------- program constants ------------------------ *)

MainMax == 48

LuckyMax == 18

DefaultRecentWindow == 50

NumFields == 7

(* ------------------------------ helpers ------------------------------- *)

Digits == {"0", "1", "2", "3", "4", "5", "6", "7", "8", "9"}

DigitVal(c) ==
  CASE c = "0" -> 0 [] c = "1" -> 1 [] c = "2" -> 2 [] c = "3" -> 3
    [] c = "4" -> 4 [] c = "5" -> 5 [] c = "6" -> 6 [] c = "7" -> 7
    [] c = "8" -> 8 [] c = "9" -> 9

DigitChar(n) ==
  CASE n = 0 -> "0" [] n = 1 -> "1" [] n = 2 -> "2" [] n = 3 -> "3"
    [] n = 4 -> "4" [] n = 5 -> "5" [] n = 6 -> "6" [] n = 7 -> "7"
    [] n = 8 -> "8" [] n = 9 -> "9"

RECURSIVE DigitsValue(_)
DigitsValue(s) ==
  IF Len(s) = 0 THEN 0
  ELSE 10 * DigitsValue(SubSeq(s, 1, Len(s) - 1)) + DigitVal(s[Len(s)])

AllDigits(s) == \A k \in 1..Len(s) : s[k] \in Digits

RECURSIVE NatChars(_)
NatChars(n) ==
  IF n < 10 THEN <<DigitChar(n)>>
  ELSE NatChars(n \div 10) \o <<DigitChar(n % 10)>>

IntChars(n) == IF n < 0 THEN <<"-">> \o NatChars(0 - n) ELSE NatChars(n)

Pad2(n) == <<DigitChar((n \div 10) % 10), DigitChar(n % 10)>>

Pad4(n) ==
  <<DigitChar((n \div 1000) % 10), DigitChar((n \div 100) % 10),
    DigitChar((n \div 10) % 10), DigitChar(n % 10)>>

DateChars(m, d, y) == Pad2(m) \o <<"/">> \o Pad2(d) \o <<"/">> \o Pad4(y)

RECURSIVE SumSeq(_)
SumSeq(s) == IF Len(s) = 0 THEN 0 ELSE s[1] + SumSeq(Tail(s))

RECURSIVE InsertSorted(_, _)
InsertSorted(x, s) ==
  IF Len(s) = 0 THEN <<x>>
  ELSE IF x < s[1] THEN <<x>> \o s
  ELSE <<s[1]>> \o InsertSorted(x, Tail(s))

RECURSIVE SortInts(_)
SortInts(s) == IF Len(s) = 0 THEN <<>> ELSE InsertSorted(s[1], SortInts(Tail(s)))

Range(s) == {s[k] : k \in 1..Len(s)}

RECURSIVE Gcd(_, _)
Gcd(a, b) == IF b = 0 THEN a ELSE Gcd(b, a % b)

Abs(x) == IF x < 0 THEN 0 - x ELSE x

(* ------------------------ float64 as rationals ------------------------ *)

NaN == [nan |-> TRUE, n |-> 0, d |-> 1]

Rat(a, b) ==
  LET g == Gcd(Abs(a), Abs(b))
  IN  IF b > 0 THEN [nan |-> FALSE, n |-> a \div g, d |-> b \div g]
      ELSE [nan |-> FALSE, n |-> (0 - a) \div g, d |-> (0 - b) \div g]

FromInt(a) == [nan |-> FALSE, n |-> a, d |-> 1]

Zero == FromInt(0)

\* the sum is taken over the least common denominator so that it stays
\* small
FAdd(x, y) ==
  IF x.nan \/ y.nan THEN NaN
  ELSE LET g == Gcd(x.d, y.d)
       IN  Rat(x.n * (y.d \div g) + y.n * (x.d \div g), (x.d \div g) * y.d)

FSub(x, y) ==
  IF x.nan \/ y.nan THEN NaN
  ELSE LET g == Gcd(x.d, y.d)
       IN  Rat(x.n * (y.d \div g) - y.n * (x.d \div g), (x.d \div g) * y.d)

\* the factors are cross-reduced first so that products stay small
FMul(x, y) ==
  IF x.nan \/ y.nan THEN NaN
  ELSE LET g1 == Gcd(Abs(x.n), y.d)
           g2 == Gcd(Abs(y.n), x.d)
       IN  Rat((x.n \div g1) * (y.n \div g2), (x.d \div g2) * (y.d \div g1))

\* x / y for y # 0; 0/0 is NaN as in IEEE 754 (no caller divides a non-zero
\* value by zero)
FDiv(x, y) ==
  IF x.nan \/ y.nan \/ y.n = 0 THEN NaN
  ELSE FMul(x, Rat(y.d, y.n))

\* IEEE comparisons: every comparison with NaN is false
FLess(x, y) == ~x.nan /\ ~y.nan /\ x.n * y.d < y.n * x.d

FGreater(x, y) == FLess(y, x)

FGeq(x, y) == ~x.nan /\ ~y.nan /\ x.n * y.d >= y.n * x.d

\* math.Min(x, y)
FMin(x, y) == IF x.nan \/ y.nan THEN NaN ELSE IF FLess(y, x) THEN y ELSE x

(* ------------------------------ parsing ------------------------------- *)

\* strconv.Atoi: an optional sign followed by one or more decimal digits
AtoiOk(s) ==
  LET body == IF Len(s) > 0 /\ s[1] \in {"+", "-"} THEN Tail(s) ELSE s
  IN  Len(body) > 0 /\ AllDigits(body)

Atoi(s) ==
  IF s[1] = "-" THEN 0 - DigitsValue(Tail(s))
  ELSE IF s[1] = "+" THEN DigitsValue(Tail(s))
  ELSE DigitsValue(s)

IsLeap(y) == (y % 4 = 0 /\ y % 100 # 0) \/ y % 400 = 0

DaysIn(m, y) ==
  IF m = 2 THEN (IF IsLeap(y) THEN 29 ELSE 28)
  ELSE IF m \in {4, 6, 9, 11} THEN 30 ELSE 31

\* time.Parse("01/02/2006", s): two-digit month, two-digit day, four-digit
\* year, no extra text, month and day in range
ParseDateOk(s) ==
  /\ Len(s) = 10
  /\ s[3] = "/" /\ s[6] = "/"
  /\ AllDigits(SubSeq(s, 1, 2)) /\ AllDigits(SubSeq(s, 4, 5))
  /\ AllDigits(SubSeq(s, 7, 10))
  /\ LET m == DigitsValue(SubSeq(s, 1, 2))
         d == DigitsValue(SubSeq(s, 4, 5))
         y == DigitsValue(SubSeq(s, 7, 10))
     IN  m \in 1..12 /\ d >= 1 /\ d <= DaysIn(m, y)

ParseDate(s) ==
  [y |-> DigitsValue(SubSeq(s, 7, 10)),
   m |-> DigitsValue(SubSeq(s, 1, 2)),
   d |-> DigitsValue(SubSeq(s, 4, 5))]

\* the zero time.Time
ZeroDate == [y |-> 1, m |-> 1, d |-> 1]

DateBefore(a, b) ==
  \/ a.y < b.y
  \/ a.y = b.y /\ a.m < b.m
  \/ a.y = b.y /\ a.m = b.m /\ a.d < b.d

\* the outcome of one iteration of the row loop of parseDrawings: the row is
\* skipped, or it yields a drawing
RowAccepted(rec) ==
  /\ ~(Len(rec) < NumFields \/ Len(rec[1]) = 0)
  /\ ParseDateOk(rec[1])
  /\ \A j \in 2..6 : AtoiOk(rec[j])
  /\ AtoiOk(rec[7])

RowDrawing(rec, index) ==
  [Date |-> ParseDate(rec[1]),
   Numbers |-> [j \in 1..5 |-> Atoi(rec[j + 1])],
   LuckyBall |-> Atoi(rec[7]),
   Index |-> index]

\* the reversal loop of parseDrawings
Reverse(s) == [k \in 1..Len(s) |-> s[Len(s) + 1 - k]]

\* the re-indexing loop of parseDrawings (Index is 0-based)
Reindex(s) == [k \in 1..Len(s) |-> [s[k] EXCEPT !.Index = k - 1]]

(* ----------------------- accumulation (analyzeData) ------------------- *)

\* a Go map with no entries
EmptyMap == [k \in {} |-> 0]

\* m[key]++ on a Go map of counters
MapInc(m, key) ==
  IF key \in DOMAIN m THEN [m EXCEPT ![key] = @ + 1] ELSE m @@ (key :> 1)

NewNumberInfo(num) ==
  [Number |-> num,
   TotalFrequency |-> 0,
   RecentFrequency |-> 0,
   LastDrawnIndex |-> -1,
   LastDrawnDate |-> ZeroDate,
   GapsSinceDrawn |-> <<>>,
   AverageGap |-> Zero,
   CurrentGap |-> 0,
   ExpectedFrequency |-> Zero,
   ChiSquareComponent |-> Zero]

\* updateNumberInfo recording the drawing's index itself as the gap (variant
\* the gap bookkeeping of C1 must reject)
updateNumberInfo_GapIsIndex(info, index, date) ==
  [info EXCEPT
     !.TotalFrequency = @ + 1,
     !.GapsSinceDrawn =
        IF info.LastDrawnIndex # -1 THEN Append(@, index) ELSE @,
     !.LastDrawnIndex = index,
     !.LastDrawnDate = date]

updateNumberInfo(info, index, date) ==
  [info EXCEPT
     !.TotalFrequency = @ + 1,
     !.GapsSinceDrawn =
        IF info.LastDrawnIndex # -1
        THEN Append(@, index - info.LastDrawnIndex) ELSE @,
     !.LastDrawnIndex = index,
     !.LastDrawnDate = date]

\* the recent-window increment also taken at index = window (variant the
\* frequency conservation of C27 must reject)
TrackNumber_WindowInclusive(info, index, date, window) ==
  LET u == updateNumberInfo(info, index, date)
  IN  IF index <= window THEN [u EXCEPT !.RecentFrequency = @ + 1] ELSE u

\* one iteration of either tracking block of analyzeData: updateNumberInfo,
\* then the recent-window increment
TrackNumber(info, index, date, window) ==
  LET u == updateNumberInfo(info, index, date)
  IN  IF index < window THEN [u EXCEPT !.RecentFrequency = @ + 1] ELSE u

\* the loop over drawing.Numbers, from position k on
RECURSIVE TrackMain(_, _, _, _, _, _)
TrackMain(m, nums, k, index, date, window) ==
  IF k > Len(nums) THEN m
  ELSE TrackMain([m EXCEPT ![nums[k]] = TrackNumber(@, index, date, window)],
                 nums, k + 1, index, date, window)

\* a.mainNumbers[num] or a.luckyBalls[ball] is nil for a number outside the
\* tracked range, and updateNumberInfo dereferences it
NilDereference(drawing) ==
  \/ \E k \in 1..Len(drawing.Numbers) : drawing.Numbers[k] \notin 1..MainMax
  \/ drawing.LuckyBall \notin 1..LuckyMax

\* fmt.Sprintf("%d-%d-...", nums...)
RECURSIVE Key(_)
Key(nums) ==
  IF Len(nums) = 1 THEN ToString(nums[1])
  ELSE ToString(nums[1]) \o "-" \o Key(Tail(nums))

\* RecordPattern leaving LastSeen at the first sighting (variant the
\* combination bookkeeping of C6 must reject)
RecordPattern_KeepsLastSeen(patterns, nums, drawingIndex) ==
  LET key == Key(nums)
  IN  IF key \in DOMAIN patterns
      THEN [patterns EXCEPT ![key] = [@ EXCEPT !.Frequency = @ + 1]]
      ELSE patterns @@
             (key :> [Numbers |-> nums, Key |-> key,
                      Frequency |-> 1, LastSeen |-> drawingIndex])

\* the lookup-or-create body shared by the three loops of analyzeCombinations
RecordPattern(patterns, nums, drawingIndex) ==
  LET key == Key(nums)
  IN  IF key \in DOMAIN patterns
      THEN [patterns EXCEPT ![key] =
              [@ EXCEPT !.Frequency = @ + 1, !.LastSeen = drawingIndex]]
      ELSE patterns @@
             (key :> [Numbers |-> nums, Key |-> key,
                      Frequency |-> 1, LastSeen |-> drawingIndex])

\* the index tuples visited by the nested ascending loops over a slice of 5
PairIdx ==
  <<<<1, 2>>, <<1, 3>>, <<1, 4>>, <<1, 5>>, <<2, 3>>,
    <<2, 4>>, <<2, 5>>, <<3, 4>>, <<3, 5>>, <<4, 5>>>>

TripleIdx ==
  <<<<1, 2, 3>>, <<1, 2, 4>>, <<1, 2, 5>>, <<1, 3, 4>>, <<1, 3, 5>>,
    <<1, 4, 5>>, <<2, 3, 4>>, <<2, 3, 5>>, <<2, 4, 5>>, <<3, 4, 5>>>>

QuadIdx ==
  <<<<1, 2, 3, 4>>, <<1, 2, 3, 5>>, <<1, 2, 4, 5>>, <<1, 3, 4, 5>>,
    <<2, 3, 4, 5>>>>

RECURSIVE RecordAll(_, _, _, _, _)
RecordAll(patterns, sorted, idxs, k, drawingIndex) ==
  IF k > Len(idxs) THEN patterns
  ELSE RecordAll(
         RecordPattern(patterns,
                       [t \in 1..Len(idxs[k]) |-> sorted[idxs[k][t]]],
                       drawingIndex),
         sorted, idxs, k + 1, drawingIndex)

\* analyzeCombinations applied to one of the three pattern maps
analyzeCombinations(patterns, idxs, numbers, drawingIndex) ==
  RecordAll(patterns, SortInts(numbers), idxs, 1, drawingIndex)

NewPatternStats ==
  [OddEvenPatterns |-> EmptyMap,
   SumRanges |-> EmptyMap,
   ConsecutiveCount |-> 0,
   DecadeDistribution |-> EmptyMap]

OddEvenLabel(odd, even) == ToString(odd) \o "O-" \o ToString(even) \o "E"

RECURSIVE CountDecades(_, _, _)
CountDecades(m, sorted, k) ==
  IF k > Len(sorted) THEN m
  ELSE CountDecades(MapInc(m, (sorted[k] - 1) \div 10), sorted, k + 1)

\* analyzePatterns counting every adjacent pair rather than every drawing
\* that has one (variant the tallies of C7 must reject)
analyzePatterns_PerPair(stats, drawing) ==
  LET sorted == SortInts(drawing.Numbers)
      odd == Cardinality({k \in 1..Len(sorted) : sorted[k] % 2 = 1})
      even == Len(sorted) - odd
      sum == SumSeq(sorted)
      adjacentPairs ==
        Cardinality({k \in 2..Len(sorted) : sorted[k] - sorted[k - 1] = 1})
  IN  [OddEvenPatterns |-> MapInc(stats.OddEvenPatterns, OddEvenLabel(odd, even)),
       SumRanges |-> MapInc(stats.SumRanges, (sum \div 20) * 20),
       ConsecutiveCount |-> stats.ConsecutiveCount + adjacentPairs,
       DecadeDistribution |-> CountDecades(stats.DecadeDistribution, sorted, 1)]

analyzePatterns(stats, drawing) ==
  LET sorted == SortInts(drawing.Numbers)
      odd == Cardinality({k \in 1..Len(sorted) : sorted[k] % 2 = 1})
      even == Len(sorted) - odd
      sum == SumSeq(sorted)
      hasConsecutive ==
        \E k \in 2..Len(sorted) : sorted[k] - sorted[k - 1] = 1
  IN  [OddEvenPatterns |-> MapInc(stats.OddEvenPatterns, OddEvenLabel(odd, even)),
       SumRanges |-> MapInc(stats.SumRanges, (sum \div 20) * 20),
       ConsecutiveCount |->
         IF hasConsecutive THEN stats.ConsecutiveCount + 1
         ELSE stats.ConsecutiveCount,
       DecadeDistribution |-> CountDecades(stats.DecadeDistribution, sorted, 1)]

\* a / b < c / d for b, d > 0, decided on the continued-fraction expansions,
\* which needs no product of the two denominators
RECURSIVE QuotLess(_, _, _, _)
QuotLess(a, b, c, d) ==
  LET qa == a \div b
      qc == c \div d
      ra == a - qa * b
      rc == c - qc * d
  IN  IF qa # qc THEN qa < qc
      ELSE IF rc = 0 THEN FALSE
      ELSE IF ra = 0 THEN TRUE
      ELSE QuotLess(d, rc, b, ra)

(* ------------------ statistics pass and chi-square pass --------------- *)

\* the per-number body of calculateStatistics; expected is the pool's
\* expected frequency (StandardDeviation, a square root, is not represented)
FinalizeInfo(info, expected) ==
  [info EXCEPT
     !.AverageGap =
        IF Len(info.GapsSinceDrawn) > 0
        THEN Rat(SumSeq(info.GapsSinceDrawn), Len(info.GapsSinceDrawn))
        ELSE @,
     !.CurrentGap = info.LastDrawnIndex,
     !.ExpectedFrequency = expected]

calculateStatistics(infos, expected) ==
  [num \in DOMAIN infos |-> FinalizeInfo(infos[num], expected)]

\* the per-number body of either loop of calculateChiSquare
ChiComponent(info) ==
  IF FGreater(info.ExpectedFrequency, Zero)
  THEN LET diff == FSub(FromInt(info.TotalFrequency), info.ExpectedFrequency)
       IN  FDiv(FMul(diff, diff), info.ExpectedFrequency)
  ELSE info.ChiSquareComponent

WithChiComponents(infos) ==
  [num \in DOMAIN infos |->
     [infos[num] EXCEPT !.ChiSquareComponent = ChiComponent(infos[num])]]

\* the partial sum of one loop of calculateChiSquare over the numbers
\* lo..hi (split in halves to keep the evaluation shallow)
RECURSIVE ChiSum(_, _, _)
ChiSum(infos, lo, hi) ==
  IF lo > hi THEN Zero
  ELSE IF lo = hi
  THEN (IF FGreater(infos[lo].ExpectedFrequency, Zero)
        THEN ChiComponent(infos[lo]) ELSE Zero)
  ELSE LET mid == (lo + hi) \div 2
       IN  FAdd(ChiSum(infos, lo, mid), ChiSum(infos, mid + 1, hi))

\* 64.001 and 27.587
mainCritical == Rat(64001, 1000)

luckyCritical == Rat(27587, 1000)

One == FromInt(1)

\* the ratio without the clamp at 1 (variant the score range of C8 must
\* reject)
ClampedRatio_NoMin(chi, critical) == FDiv(chi, critical)

\* math.Min(chiSquare/critical, 1)
ClampedRatio(chi, critical) == FMin(FDiv(chi, critical), One)

\* randomnessScore = (100*(1 - mainRatio) + 100*(1 - luckyRatio)) / 2 is held
\* as its two ratios: the single quotient has a denominator beyond the
\* integers TLC computes with
RandomnessOf(chiMain, chiLucky) ==
  [mainRatio |-> ClampedRatio(chiMain, mainCritical),
   luckyRatio |-> ClampedRatio(chiLucky, luckyCritical)]

\* score <= 100  <=>  mainRatio + luckyRatio >= 0
ScoreAtMost100(score) ==
  ~QuotLess(score.mainRatio.n, score.mainRatio.d,
            0 - score.luckyRatio.n, score.luckyRatio.d)

\* score >= 0  <=>  mainRatio <= 2 - luckyRatio
ScoreAtLeast0(score) ==
  ~QuotLess(2 * score.luckyRatio.d - score.luckyRatio.n, score.luckyRatio.d,
            score.mainRatio.n, score.mainRatio.d)

\* score = 100  <=>  mainRatio + luckyRatio = 0
ScoreIs100(score) ==
  /\ ~QuotLess(score.mainRatio.n, score.mainRatio.d,
               0 - score.luckyRatio.n, score.luckyRatio.d)
  /\ ~QuotLess(0 - score.luckyRatio.n, score.luckyRatio.d,
               score.mainRatio.n, score.mainRatio.d)

(* ------------------------------- scoring ------------------------------ *)

Strategies == {"balanced", "hot", "overdue", "pattern", "frequency"}

\* the inner loops of the "pattern" case: every position of every pair
\* pattern that holds num adds the pattern's frequency
\* the pair bonus counting a pair only for its smaller number (variant the
\* pattern score of C29 must reject)
PairBonus_FirstOnly(patterns, num) ==
  LET hits == {<<key, t>> \in (DOMAIN patterns) \X (1..1) :
                 patterns[key].Numbers[t] = num}
      freqs == {patterns[h[1]].Frequency : h \in hits}
      RECURSIVE Total(_)
      Total(fs) ==
        IF fs = {} THEN 0
        ELSE LET f == CHOOSE x \in fs : TRUE
             IN  f * Cardinality({h \in hits : patterns[h[1]].Frequency = f})
                   + Total(fs \ {f})
  IN  Total(freqs)

PairBonus(patterns, num) ==
  LET hits == {<<key, t>> \in (DOMAIN patterns) \X (1..2) :
                 patterns[key].Numbers[t] = num}
      freqs == {patterns[h[1]].Frequency : h \in hits}
      RECURSIVE Total(_)
      Total(fs) ==
        IF fs = {} THEN 0
        ELSE LET f == CHOOSE x \in fs : TRUE
             IN  f * Cardinality({h \in hits : patterns[h[1]].Frequency = f})
                   + Total(fs \ {f})
  IN  Total(freqs)

\* the switch of scoreNumbersByStrategy for one number
StrategyScore(strategy, info, num, totalDrawings, patterns) ==
  CASE strategy = "balanced" ->
         LET freqScore ==
               FMul(FDiv(FromInt(info.TotalFrequency), FromInt(totalDrawings)),
                    FromInt(100))
             hot ==
               IF info.RecentFrequency > 3
               THEN FAdd(freqScore, FromInt(info.RecentFrequency * 10))
               ELSE freqScore
         IN  IF /\ FGreater(info.AverageGap, Zero)
                /\ FGreater(FromInt(info.CurrentGap),
                            FMul(info.AverageGap, Rat(13, 10)))
             THEN FAdd(hot, FMul(FDiv(FromInt(info.CurrentGap), info.AverageGap),
                                 FromInt(20)))
             ELSE hot
    [] strategy = "hot" -> FromInt(info.RecentFrequency * 100)
    [] strategy = "overdue" ->
         IF FGreater(info.AverageGap, Zero)
         THEN FMul(FDiv(FromInt(info.CurrentGap), info.AverageGap), FromInt(100))
         ELSE Zero
    [] strategy = "pattern" -> FromInt(PairBonus(patterns, num))
    [] strategy = "frequency" -> FromInt(info.TotalFrequency)
    [] OTHER -> Zero

\* the order in which a range loop visits the keys 1..n of a Go map: the
\* runtime starts at an arbitrary key
MapOrder(start, n) == [k \in 1..n |-> ((start + k - 2) % n) + 1]

\* the sort with its comparator flipped (variant the selection of C10 must
\* reject)
SortByScore_Ascending(scored) ==
  LET entries == SubSeq(scored, 1, Len(scored))
      values == {entries[k].Score : k \in 1..Len(entries)}
      RECURSIVE Rising(_)
      Rising(vs) ==
        IF vs = {} THEN <<>>
        ELSE LET low == CHOOSE v \in vs : \A w \in vs : ~FLess(w, v)
             IN  <<low>> \o Rising(vs \ {low})
      ranked == Rising(values)
      RECURSIVE Collect(_)
      Collect(k) ==
        IF k > Len(ranked) THEN <<>>
        ELSE LET Has(e) == e.Score = ranked[k]
             IN  SelectSeq(entries, Has) \o Collect(k + 1)
  IN  Collect(1)

\* sort.Slice(scored, func(i, j) { return scored[i].Score > scored[j].Score })
\* applied to the entries in the order given: entries are grouped by score,
\* greatest score first, and entries the comparison does not separate (equal
\* scores, NaN) stay in the order given.  sort.Slice is not stable: the
\* orders given stand for the orders it can leave such entries in.
SortByScore(scored) ==
  LET entries == SubSeq(scored, 1, Len(scored))
      values == {entries[k].Score : k \in 1..Len(entries)}
      RECURSIVE Descending(_)
      Descending(vs) ==
        IF vs = {} THEN <<>>
        ELSE LET top == CHOOSE v \in vs : \A w \in vs : ~FGreater(w, v)
             IN  <<top>> \o Descending(vs \ {top})
      ranked == Descending(values)
      RECURSIVE Collect(_)
      Collect(k) ==
        IF k > Len(ranked) THEN <<>>
        ELSE LET Has(e) == e.Score = ranked[k]
             IN  SelectSeq(entries, Has) \o Collect(k + 1)
  IN  Collect(1)

scoreNumbersByStrategy(strategy, infos, totalDrawings, patterns, order) ==
  SortByScore(
    [k \in 1..Len(order) |->
       [Number |-> order[k],
        Score |-> StrategyScore(strategy, infos[order[k]], order[k],
                                totalDrawings, patterns)]])

scoreLuckyBalls(infos, order) ==
  SortByScore(
    [k \in 1..Len(order) |->
       [Number |-> order[k],
        Score |-> FAdd(FromInt(infos[order[k]].TotalFrequency),
                       FromInt(infos[order[k]].RecentFrequency * 5))]])

\* the selection loop of generateSetByStrategy, from entry k on (once five
\* are chosen the remaining iterations change nothing)
RECURSIVE SelectNumbers(_, _, _)
SelectNumbers(scored, k, chosen) ==
  IF k > Len(scored) \/ Len(chosen) >= 5 THEN chosen
  ELSE IF scored[k].Number \notin Range(chosen) /\ Len(chosen) < 5
  THEN SelectNumbers(scored, k + 1, Append(chosen, scored[k].Number))
  ELSE SelectNumbers(scored, k + 1, chosen)

\* the strategy weight of calculateConfidence, in hundredths
ConfidenceWeight(strategy) ==
  CASE strategy = "balanced" -> 95
    [] strategy = "hot" -> 85
    [] strategy = "overdue" -> 80
    [] strategy = "pattern" -> 75
    [] strategy = "frequency" -> 90
    [] OTHER -> 70

generateSetByStrategy(strategy, scored, luckyScores, randomness) ==
  [Strategy |-> strategy,
   Numbers |-> SortInts(SelectNumbers(scored, 1, <<>>)),
   LuckyBall |-> IF Len(luckyScores) > 0 THEN luckyScores[1].Number ELSE 0,
   Confidence |-> [randomnessScore |-> randomness,
                   weight |-> ConfidenceWeight(strategy)]]

(* --------------------- calendar (package time) ------------------------ *)

\* days from 1970-01-01 to the civil date (proleptic Gregorian calendar)
DaysSinceEpoch(date) ==
  LET y == IF date.m <= 2 THEN date.y - 1 ELSE date.y
      era == y \div 400
      yoe == y - era * 400
      mp == IF date.m > 2 THEN date.m - 3 ELSE date.m + 9
      doy == (153 * mp + 2) \div 5 + date.d - 1
      doe == yoe * 365 + yoe \div 4 - yoe \div 100 + doy
  IN  era * 146097 + doe - 719468

\* an instant: a civil date and the minute of its day
At(date, minute) == [date |-> date, minute |-> minute]

\* t.Sub(u) in minutes
MinutesBetween(t, u) ==
  (DaysSinceEpoch(t.date) - DaysSinceEpoch(u.date)) * 1440 + t.minute - u.minute

\* int(t.Weekday()): Sunday = 0; 1970-01-01 was a Thursday
Weekday(t) == (DaysSinceEpoch(t.date) + 4) % 7

\* t.Format("2006-01-02")
DateKey(t) ==
  Pad4(t.date.y) \o <<"-">> \o Pad2(t.date.m) \o <<"-">> \o Pad2(t.date.d)

\* the days fetchMoonPhaseData walks: January 1 to December 31 of the year
DaysOfYear(year) ==
  {date \in [y : {year}, m : 1..12, d : 1..31] : date.d <= DaysIn(date.m, year)}

\* the date a "2006-01-02" key was formatted from
KeyDate(key) ==
  [y |-> DigitsValue(SubSeq(key, 1, 4)),
   m |-> DigitsValue(SubSeq(key, 6, 7)),
   d |-> DigitsValue(SubSeq(key, 9, 10))]

(* ------------------ float64 helpers of the correlator ----------------- *)

\* int(x) for a finite float64: truncation toward zero
Trunc(x) == IF x.n >= 0 THEN x.n \div x.d ELSE 0 - ((0 - x.n) \div x.d)

\* a % b on Go ints, b > 0: the remainder has the sign of a
Rem(a, b) == IF a >= 0 THEN a % b ELSE 0 - ((0 - a) % b)

\* math.Floor(x)
Floor(x) == x.n \div x.d

\* math.Mod(x, y) for y > 0: the remainder has the sign of x
FMod(x, y) ==
  IF x.nan \/ y.nan THEN NaN
  ELSE LET n == x.n * y.d
           m == y.n * x.d
           r == IF n >= 0 THEN n % m ELSE 0 - ((0 - n) % m)
       IN  Rat(r, x.d * y.d)

\* math.Sin of a whole number of degrees in 0..359, to three decimals, by
\* Bhaskara's formula 4p / (40500 - p), p = deg * (180 - deg) (within 0.002
\* of the sine, and within [-1, 1] like it)
SinDegrees(deg) ==
  LET half == IF deg < 180 THEN deg ELSE deg - 180
      p == half * (180 - half)
      s == Rat((4000 * p) \div (40500 - p), 1000)
  IN  IF deg < 180 THEN s ELSE FSub(Zero, s)

\* math.Sin(minutes / perRadian) for an angle given in radians as a quotient
\* of whole numbers: the angle in turns is minutes * 113 / (perRadian * 710),
\* pi taken as 355/113
SinOfQuotient(minutes, perRadian) ==
  LET m == perRadian * 710
      r == ((minutes % m) * 113) % m
  IN  SinDegrees((r \div (m \div 360)) % 360)

(* ------------------------- astronomical data -------------------------- *)

\* refNewMoon: 2000-01-06 18:14 UTC
refNewMoon == At([y |-> 2000, m |-> 1, d |-> 6], 18 * 60 + 14)

\* the denominator of cycles = minutes / (1440 * 29.53059)
\*                           = minutes * 625 / (9 * 2953059)
CyclesDen == 9 * 2953059

\* (a * 625) % CyclesDen for 0 <= a < CyclesDen, in two steps of 25 so that
\* no product leaves 32 bits
Times625(a) == ((((a * 25) % CyclesDen) * 25) % CyclesDen)

\* the variant of the moon phase that drops the integer part by truncation
\* (variant the range of C19 must reject)
MoonPhase_Truncates(t) ==
  LET minutes == MinutesBetween(t, refNewMoon)
  IN  IF minutes >= 0 THEN Rat(Times625(minutes % CyclesDen), CyclesDen)
      ELSE Rat(0 - Times625((0 - minutes) % CyclesDen), CyclesDen)

\* calculateMoonPhase, phase: cycles - math.Floor(cycles)
MoonPhase(t) ==
  LET minutes == MinutesBetween(t, refNewMoon)
  IN  Rat(Times625(minutes % CyclesDen), CyclesDen)

\* illumination: 0.5 * (1 - math.Cos(2*math.Pi*phase)), the cosine taken as
\* the sine a quarter turn on, the angle cut to whole degrees
calculateMoonPhase(t) ==
  LET Illumination(phase) ==
        LET degrees == Floor(FMul(phase, FromInt(360)))
            cosine == SinDegrees((degrees + 90) % 360)
        IN  FMul(Rat(1, 2), FSub(One, cosine))
      Both(phase) == [phase |-> phase, illumination |-> Illumination(phase)]
  IN  Both(MoonPhase(t))

getMoonPhaseName(phase) ==
  IF FLess(phase, Rat(625, 10000)) THEN "New Moon"
  ELSE IF FLess(phase, Rat(1875, 10000)) THEN "Waxing Crescent"
  ELSE IF FLess(phase, Rat(3125, 10000)) THEN "First Quarter"
  ELSE IF FLess(phase, Rat(4375, 10000)) THEN "Waxing Gibbous"
  ELSE IF FLess(phase, Rat(5625, 10000)) THEN "Full Moon"
  ELSE IF FLess(phase, Rat(6875, 10000)) THEN "Waning Gibbous"
  ELSE IF FLess(phase, Rat(8125, 10000)) THEN "Last Quarter"
  ELSE IF FLess(phase, Rat(9375, 10000)) THEN "Waning Crescent"
  ELSE "New Moon"

\* the switch of getZodiacSign, one case per month: the day the sign changes,
\* the sign before it, the sign from it on
SignsOfMonth ==
  <<<<20, "Capricorn", "Aquarius">>, <<19, "Aquarius", "Pisces">>,
    <<21, "Pisces", "Aries">>, <<20, "Aries", "Taurus">>,
    <<21, "Taurus", "Gemini">>, <<21, "Gemini", "Cancer">>,
    <<23, "Cancer", "Leo">>, <<23, "Leo", "Virgo">>,
    <<23, "Virgo", "Libra">>, <<23, "Libra", "Scorpio">>,
    <<22, "Scorpio", "Sagittarius">>, <<22, "Sagittarius", "Capricorn">>>>

\* getZodiacSign with every comparison "day <= change" (variant the sign
\* boundaries of C17 must reject)
getZodiacSign_LateChange(date) ==
  IF date.m \notin 1..12 THEN "Unknown"
  ELSE IF date.d <= SignsOfMonth[date.m][1] THEN SignsOfMonth[date.m][2]
  ELSE SignsOfMonth[date.m][3]

getZodiacSign(date) ==
  IF date.m \notin 1..12 THEN "Unknown"
  ELSE IF date.d < SignsOfMonth[date.m][1] THEN SignsOfMonth[date.m][2]
  ELSE SignsOfMonth[date.m][3]

\* getSeasonalPhase with summer beginning on June 20 (variant the season
\* boundaries of C18 must reject)
getSeasonalPhase_EarlySummer(date) ==
  LET month == date.m
      day == date.d
  IN  IF (month = 3 /\ day >= 20) \/ month = 4 \/ month = 5
         \/ (month = 6 /\ day < 20)
      THEN "Spring"
      ELSE IF (month = 6 /\ day >= 20) \/ month = 7 \/ month = 8
              \/ (month = 9 /\ day < 23)
      THEN "Summer"
      ELSE IF (month = 9 /\ day >= 23) \/ month = 10 \/ month = 11
              \/ (month = 12 /\ day < 21)
      THEN "Autumn"
      ELSE "Winter"

getSeasonalPhase(date) ==
  LET month == date.m
      day == date.d
  IN  IF (month = 3 /\ day >= 20) \/ month = 4 \/ month = 5
         \/ (month = 6 /\ day < 21)
      THEN "Spring"
      ELSE IF (month = 6 /\ day >= 21) \/ month = 7 \/ month = 8
              \/ (month = 9 /\ day < 23)
      THEN "Summer"
      ELSE IF (month = 9 /\ day >= 23) \/ month = 10 \/ month = 11
              \/ (month = 12 /\ day < 21)
      THEN "Autumn"
      ELSE "Winter"

Planets == {"Mercury", "Venus", "Mars", "Jupiter", "Saturn"}

\* calculatePlanetaryPositions: the J2000 epoch is 2000-01-01 12:00 UTC, the
\* orbital periods are 87.97, 224.70, 686.98, 4332.59 and 10759.22 days, an
\* angle is math.Mod(daysSinceJ2000*360.0/period, 360.0)
calculatePlanetaryPositions(t) ==
  LET j2000 == At([y |-> 2000, m |-> 1, d |-> 1], 12 * 60)
      daysSinceJ2000 == Rat(MinutesBetween(t, j2000), 1440)
      orbitalPeriods ==
        [planet \in Planets |->
           CASE planet = "Mercury" -> Rat(8797, 100)
             [] planet = "Venus" -> Rat(22470, 100)
             [] planet = "Mars" -> Rat(68698, 100)
             [] planet = "Jupiter" -> Rat(433259, 100)
             [] planet = "Saturn" -> Rat(1075922, 100)]
  IN  [planet \in Planets |->
         FMod(FDiv(FMul(daysSinceJ2000, FromInt(360)), orbitalPeriods[planet]),
              FromInt(360))]

(* --------------------------- the cosmic cache ------------------------- *)

\* a nil *SolarData or *WeatherData
Nil == [nil |-> TRUE]

IsNil(x) == "nil" \in DOMAIN x

\* &CosmicData{Date: t}: every other field has its zero value
NewCosmicData(t) ==
  [Date |-> t,
   MoonPhase |-> Zero,
   MoonPhaseName |-> "",
   MoonIllumination |-> Zero,
   SolarActivity |-> Nil,
   PlanetaryPositions |-> EmptyMap,
   ZodiacSign |-> "",
   DayOfWeek |-> "",
   SeasonalPhase |-> "",
   WeatherData |-> Nil,
   GeomagneticIndex |-> Zero]

\* the three moon assignments of fetchMoonPhaseData and of
\* PredictBasedOnCosmicConditions
WithMoon(cosmic, t) ==
  LET Assign(moon) ==
        [cosmic EXCEPT !.MoonPhase = moon.phase,
                       !.MoonIllumination = moon.illumination,
                       !.MoonPhaseName = getMoonPhaseName(moon.phase)]
  IN  Assign(calculateMoonPhase(t))

calculateAstronomicalData(cosmic) ==
  [cosmic EXCEPT !.DayOfWeek =
                   <<"Sunday", "Monday", "Tuesday", "Wednesday", "Thursday",
                     "Friday", "Saturday">>[Weekday(cosmic.Date) + 1],
                 !.ZodiacSign = getZodiacSign(cosmic.Date.date),
                 !.SeasonalPhase = getSeasonalPhase(cosmic.Date.date),
                 !.PlanetaryPositions = calculatePlanetaryPositions(cosmic.Date)]

\* addMockDataForDemo, of which the fields read later are kept:
\* SolarWindSpeed, F107Index, Temperature and the geomagnetic index (Date.Unix()/86400 is the minutes
\* since 1970 over 1440, Date.Unix()/432000 the same over 7200; the yearly
\* angle 2*pi*YearDay/365 is cut to whole degrees)
addMockDataForDemo(cosmic) ==
  LET newYear == [y |-> cosmic.Date.date.y, m |-> 1, d |-> 1]
      YearDay(days) == days - DaysSinceEpoch(newYear) + 1
      UnixMinutes(days) == days * 1440 + cosmic.Date.minute
      Magnitude(x) == IF FLess(x, Zero) THEN FSub(Zero, x) ELSE x
      Fill(daily, fiveDaily, yearly) ==
        [cosmic EXCEPT
           !.SolarActivity =
              [SolarWindSpeed |-> FAdd(FromInt(350), FMul(daily, FromInt(50))),
               F107Index |-> FAdd(FromInt(70), FMul(fiveDaily, FromInt(30)))],
           !.WeatherData =
              [Temperature |->
                 FAdd(FAdd(FromInt(15), FMul(FromInt(10), yearly)),
                      FMul(daily, FromInt(5)))],
           !.GeomagneticIndex =
              FAdd(FromInt(2), FMul(Magnitude(fiveDaily), FromInt(5)))]
      On(days) ==
        Fill(SinOfQuotient(UnixMinutes(days), 1440),
             SinOfQuotient(UnixMinutes(days), 7200),
             SinDegrees(Floor(Rat(YearDay(days) * 360, 365)) % 360))
  IN  On(DaysSinceEpoch(cosmic.Date.date))

\* fetchMoonPhaseData(year): every day of the year gets a record (created
\* when missing) and its three moon fields
fetchMoonPhaseData(cache, year) ==
  LET Day(key, d) ==
        WithMoon(IF key \in DOMAIN cache THEN cache[key]
                 ELSE NewCosmicData(d), d)
      Days(keys) ==
        [key \in (DOMAIN cache) \cup keys |->
           IF key \in keys THEN Day(key, At(KeyDate(key), 0)) ELSE cache[key]]
  IN  Days({DateKey(At(date, 0)) : date \in DaysOfYear(year)})

\* EnrichWithCosmicData: the moon data of every drawing year, then the
\* astronomical and mock data of every drawing's date
EnrichWithCosmicData(cache, drawn) ==
  LET years == {drawn[k].Date.y : k \in 1..Len(drawn)}
      RECURSIVE FetchYears(_, _)
      FetchYears(cached, left) ==
        IF left = {} THEN cached
        ELSE LET year == CHOOSE y \in left : TRUE
             IN  FetchYears(fetchMoonPhaseData(cached, year), left \ {year})
      Drawn(fetched, drawnKeys) ==
        [key \in (DOMAIN fetched) \cup drawnKeys |->
           IF key \in drawnKeys
           THEN addMockDataForDemo(calculateAstronomicalData(
                  IF key \in DOMAIN fetched THEN fetched[key]
                  ELSE NewCosmicData(At(KeyDate(key), 0))))
           ELSE fetched[key]]
  IN  Drawn(FetchYears(cache, years),
            {DateKey(At(drawn[k].Date, 0)) : k \in 1..Len(drawn)})

\* len(cosmic.ZodiacSign)
SignLength(sign) ==
  CASE sign = "" -> 0
    [] sign = "Leo" -> 3
    [] sign \in {"Aries", "Virgo", "Libra"} -> 5
    [] sign \in {"Taurus", "Gemini", "Cancer", "Pisces"} -> 6
    [] sign \in {"Scorpio", "Unknown"} -> 7
    [] sign = "Aquarius" -> 8
    [] sign = "Capricorn" -> 9
    [] sign = "Sagittarius" -> 11

\* the uniqueness pass leaving collisions in place (variant the distinctness
\* of C11 must reject)
EnsureUnique_NoRepair(numbers, k, used) == numbers

\* the uniqueness pass over numbers[k..]; the inner loop is
\* num = (num % 48) + 1 while used[num]
RECURSIVE EnsureUnique(_, _, _)
EnsureUnique(numbers, k, used) ==
  IF k > Len(numbers) THEN numbers
  ELSE LET RECURSIVE Probe(_)
           Probe(n) == IF n \in used THEN Probe(Rem(n, 48) + 1) ELSE n
           num == Probe(numbers[k])
       IN  EnsureUnique([numbers EXCEPT ![k] = num], k + 1, used \cup {num})

PredictBasedOnCosmicConditions(cache, today) ==
  LET Numbers(cosmic) ==
        LET moonInfluence == Trunc(FMul(cosmic.MoonPhase, FromInt(48)))
            dayNum == Weekday(today)
            zodiacNum == SignLength(cosmic.ZodiacSign)
        IN  <<Rem(moonInfluence, 48) + 1,
              Rem(dayNum * 7, 48) + 1,
              Rem(zodiacNum * 3, 48) + 1,
              IF ~IsNil(cosmic.SolarActivity)
              THEN Rem(Trunc(cosmic.SolarActivity.F107Index), 48) + 1
              ELSE 23,
              IF ~IsNil(cosmic.WeatherData)
              THEN Rem(Trunc(cosmic.WeatherData.Temperature), 48) + 1
              ELSE 42>>
      \* the cached record, or one computed from the clock reading
      Conditions(dateKey) ==
        IF dateKey \in DOMAIN cache THEN cache[dateKey]
        ELSE addMockDataForDemo(calculateAstronomicalData(
               WithMoon(NewCosmicData(today), today)))
  IN  EnsureUnique(Numbers(Conditions(DateKey(today))), 1, {})

(* ------------------ float64 with infinities (IEEE 754) ---------------- *)

\* +Inf and -Inf are the values with d = 0; signed zeros are not told apart
PosInf == [nan |-> FALSE, n |-> 1, d |-> 0]

NegInf == [nan |-> FALSE, n |-> 0 - 1, d |-> 0]

IsInf(x) == ~x.nan /\ x.d = 0

IsFinite(x) == ~x.nan /\ x.d # 0

Sign(a) == IF a > 0 THEN 1 ELSE IF a < 0 THEN 0 - 1 ELSE 0

\* x + y: Inf + (-Inf) is NaN
XAdd(x, y) ==
  IF x.nan \/ y.nan THEN NaN
  ELSE IF IsInf(x) /\ IsInf(y) THEN (IF x.n = y.n THEN x ELSE NaN)
  ELSE IF IsInf(x) THEN x
  ELSE IF IsInf(y) THEN y
  ELSE FAdd(x, y)

XSub(x, y) == XAdd(x, IF y.nan THEN NaN ELSE [y EXCEPT !.n = 0 - y.n])

\* x * y: 0 * Inf is NaN
XMul(x, y) ==
  IF x.nan \/ y.nan THEN NaN
  ELSE IF IsInf(x) \/ IsInf(y)
       THEN (IF x.n = 0 \/ y.n = 0 THEN NaN
             ELSE IF Sign(x.n) = Sign(y.n) THEN PosInf ELSE NegInf)
  ELSE FMul(x, y)

\* x / y: 0/0 and Inf/Inf are NaN, a non-zero value over 0 is an infinity
XDiv(x, y) ==
  IF x.nan \/ y.nan THEN NaN
  ELSE IF IsInf(x)
       THEN (IF IsInf(y) THEN NaN
             ELSE IF Sign(x.n) * Sign(y.n) < 0 THEN NegInf ELSE PosInf)
  ELSE IF IsInf(y) THEN Zero
  ELSE IF y.n = 0
       THEN (IF x.n = 0 THEN NaN ELSE IF x.n > 0 THEN PosInf ELSE NegInf)
  ELSE FDiv(x, y)

\* x == 0
XIsZero(x) == IsFinite(x) /\ x.n = 0

\* x > y; every comparison with NaN is false
XGreater(x, y) ==
  /\ ~x.nan
  /\ ~y.nan
  /\ x # y
  /\ IF IsInf(x) THEN x.n > 0 \/ IsInf(y)
     ELSE IF IsInf(y) THEN y.n < 0
     ELSE FGreater(x, y)

(* ------------------------- Pearson correlation ------------------------ *)

RECURSIVE XSum(_)
XSum(s) == IF s = <<>> THEN Zero ELSE XAdd(XSum(SubSeq(s, 1, Len(s) - 1)), s[Len(s)])

\* A correlation is kept as its sign and its square, a p-value as the square
\* of the statistic t it is computed from (pValue = 1 - |t|/(|t| + 10)), so
\* that the square roots of the code stay exact.

\* return 0, 1
ZeroOne ==
  [correlation |-> [sign |-> 0, sq |-> Zero], pValue |-> [tSq |-> Zero]]

calculatePearsonCorrelation(x, y) ==
  IF Len(x) # Len(y) \/ Len(x) = 0 THEN ZeroOne
  ELSE
    LET n == FromInt(Len(x))
        meanX == XDiv(XSum(x), n)
        meanY == XDiv(XSum(y), n)
        dx == [k \in 1..Len(x) |-> XSub(x[k], meanX)]
        dy == [k \in 1..Len(x) |-> XSub(y[k], meanY)]
        num == XSum([k \in 1..Len(x) |-> XMul(dx[k], dy[k])])
        denomX == XSum([k \in 1..Len(x) |-> XMul(dx[k], dx[k])])
        denomY == XSum([k \in 1..Len(x) |-> XMul(dy[k], dy[k])])
    IN  IF XIsZero(denomX) \/ XIsZero(denomY) THEN ZeroOne
        ELSE
          LET \* correlation = num / math.Sqrt(denomX*denomY)
              sq == XDiv(XMul(num, num), XMul(denomX, denomY))
              sign == IF num.nan THEN 0 ELSE Sign(num.n)
              \* (n-2)/(1-correlation*correlation)
              ratio == XDiv(XSub(n, FromInt(2)), XSub(One, sq))
              \* t = correlation * math.Sqrt(ratio); the root of a negative
              \* number is NaN
              tSq == IF ~ratio.nan /\ ratio.n < 0 THEN NaN ELSE XMul(sq, ratio)
          IN  [correlation |-> [sign |-> sign, sq |-> sq],
               pValue |-> [tSq |-> tSq]]

(* --------------------------- interpretation --------------------------- *)

\* fmt's %.3f: NaN and the infinities by name, a number rounded to three
\* decimals (half to even)
Format3f(x) ==
  IF x.nan THEN "NaN"
  ELSE IF IsInf(x) THEN (IF x.n > 0 THEN "+Inf" ELSE "-Inf")
  ELSE LET a == Abs(x.n) * 1000
           q == a \div x.d
           r == a % x.d
           up == 2 * r > x.d \/ (2 * r = x.d /\ q % 2 = 1)
           m == IF up THEN q + 1 ELSE q
       IN  (IF x.n < 0 THEN "-" ELSE "") \o ToString(m \div 1000) \o "."
           \o ToString((m \div 100) % 10) \o ToString((m \div 10) % 10)
           \o ToString(m % 10)

\* the texts are kept as their pieces: what precedes %.3f, the rendering,
\* what follows
interpretMoonCorrelation(corr, pValue) ==
  IF XGreater(pValue, Rat(1, 10))
  THEN <<"No significant correlation between moon phase and number patterns">>
  ELSE IF XGreater(corr, Zero)
  THEN <<"Slight positive correlation (r=", Format3f(corr),
         "): Higher numbers during waxing moon">>
  ELSE <<"Slight negative correlation (r=", Format3f(corr),
         "): Lower numbers during waxing moon">>

interpretSolarCorrelation(corr, pValue) ==
  IF XGreater(pValue, Rat(1, 10))
  THEN <<"Solar activity shows no significant impact on number selection">>
  ELSE <<"Correlation detected (r=", Format3f(corr),
         "): Solar storms may influence high number frequency">>

interpretWeatherCorrelation(corr, pValue) ==
  IF XGreater(pValue, Rat(1, 10))
  THEN <<"Weather conditions show no correlation with number patterns">>
  ELSE <<"Weather correlation (r=", Format3f(corr),
         "): Temperature variations show slight pattern influence">>

(* ------------------------ correlation analysis ------------------------ *)

\* AnalyzeCorrelations: the collection is emptied, then filled by the moon
\* phase, solar activity, weather, temporal and planetary analyses in that
\* order.  drawn is analyzer.drawings, cache the engine's cosmicData; start
\* is where the range loops over the maps of the analyses begin.  A sample
\* of the moon phase enters the correlation to three decimals; Correlation
\* and PValue of a Pearson result are held as calculatePearsonCorrelation
\* gives them (sign and square; t squared, the p-value being 10/(|t| + 10)).
AnalyzeCorrelations(drawn, cache, start) ==
  LET Indices == [k \in 1..Len(drawn) |-> k]
      \* drawing.Date.Format("2006-01-02") and the lookup in ce.cosmicData
      KeyOf(k) == DateKey(At(drawn[k].Date, 0))
      Cached(k) == KeyOf(k) \in DOMAIN cache
      Cosmic(k) == cache[KeyOf(k)]
      HasSolar(k) == Cached(k) /\ ~IsNil(Cosmic(k).SolarActivity)
      HasWeather(k) == Cached(k) /\ ~IsNil(Cosmic(k).WeatherData)
      HasPlanets(k) == Cached(k) /\ DOMAIN Cosmic(k).PlanetaryPositions # {}
      HighCount(k) ==
        Cardinality({t \in 1..Len(drawn[k].Numbers) : drawn[k].Numbers[t] > 30})
      EvenCount(k) ==
        Cardinality({t \in 1..Len(drawn[k].Numbers) :
                       drawn[k].Numbers[t] % 2 = 0})
      Milli(x) ==
        LET Fine(coarse) ==
              Rat(Trunc(coarse) * 25
                    + Trunc(FMul(FSub(coarse, FromInt(Trunc(coarse))),
                                 FromInt(25))),
                  1000)
        IN  Fine(FMul(x, FromInt(40)))
      \* the largest k below cap with (k / scale)^2 <= x, or cap
      Root(x, scale, cap) ==
        LET Find(scaled) ==
              IF FGeq(scaled, FromInt(cap * cap)) THEN cap
              ELSE CHOOSE k \in 0..(cap - 1) :
                     /\ FGeq(scaled, FromInt(k * k))
                     /\ FLess(scaled, FromInt((k + 1) * (k + 1)))
        IN  Find(FMul(x, FromInt(scale * scale)))
      \* the float64 values the interpreters are given: the correlation to
      \* three decimals, the p-value with |t| to whole units (which keeps
      \* pValue > 0.1, that is |t| < 90, as it is)
      CorrFloat(c) ==
        IF c.sq.nan THEN NaN
        ELSE IF IsInf(c.sq) THEN (IF c.sign < 0 THEN NegInf ELSE PosInf)
        ELSE Rat(c.sign * Root(c.sq, 1000, 1000), 1000)
      PFloat(p) ==
        IF p.tSq.nan \/ IsInf(p.tSq) THEN NaN
        ELSE Rat(10, 10 + Root(p.tSq, 1, 1000))
      \* getSignificanceLevel: pValue < 0.01 is |t| > 990, pValue < 0.05 is
      \* |t| > 190, pValue < 0.1 is |t| > 90; no comparison holds of NaN
      getSignificanceLevel(p) ==
        IF p.tSq.nan \/ IsInf(p.tSq) THEN "None"
        ELSE IF FGreater(p.tSq, FromInt(990 * 990)) THEN "High"
        ELSE IF FGreater(p.tSq, FromInt(190 * 190)) THEN "Moderate"
        ELSE IF FGreater(p.tSq, FromInt(90 * 90)) THEN "Low"
        ELSE "None"
      Continuous(factor, subFactor, size, Interpret(_, _), r) ==
        [Factor |-> factor,
         SubFactor |-> subFactor,
         Correlation |-> r.correlation,
         PValue |-> r.pValue,
         SampleSize |-> size,
         Significance |-> getSignificanceLevel(r.pValue),
         Interpretation |->
           Interpret(CorrFloat(r.correlation), PFloat(r.pValue))]
      \* fmt's %.1f and %.2f of a number that is not negative (scale 10, 100)
      Fixed(x, scale) ==
        LET a == x.n * scale
            q == a \div x.d
            r == a % x.d
            m == IF 2 * r > x.d \/ (2 * r = x.d /\ q % 2 = 1) THEN q + 1 ELSE q
        IN  ToString(m \div scale) \o "."
            \o (IF scale = 100 THEN ToString((m \div 10) % 10) ELSE "")
            \o ToString(m % 10)
      \* the numbers of the drawings ks, pooled: how often num is among them,
      \* how many there are, the greatest count, and the number the loop of
      \* findMaxFrequency (or its inlined copy) ends with: the first in the
      \* map's order to reach the greatest count
      Count(ks, num) ==
        Cardinality({p \in ks \X (1..5) :
                       p[2] <= Len(drawn[p[1]].Numbers)
                       /\ drawn[p[1]].Numbers[p[2]] = num})
      Total(ks) ==
        Cardinality({p \in ks \X (1..5) : p[2] <= Len(drawn[p[1]].Numbers)})
      MaxFreq(ks) ==
        LET Greatest(counts) == CHOOSE f \in counts : \A g \in counts : g <= f
        IN  Greatest({Count(ks, num) : num \in 1..MainMax})
      MaxNum(ks) ==
        LET order == MapOrder(start[1], MainMax)
            First(max) ==
              order[CHOOSE k \in 1..MainMax :
                      /\ Count(ks, order[k]) = max
                      /\ \A j \in 1..(k - 1) : Count(ks, order[j]) # max]
        IN  IF Total(ks) = 0 THEN 0 ELSE First(MaxFreq(ks))
      \* analyzeMoonPhaseCorrelations
      moonIdx == SelectSeq(Indices, Cached)
      moon ==
        Continuous(
          "Moon Phase", "Average Number Value", Len(moonIdx),
          interpretMoonCorrelation,
          calculatePearsonCorrelation(
            [j \in 1..Len(moonIdx) |-> Milli(Cosmic(moonIdx[j]).MoonPhase)],
            [j \in 1..Len(moonIdx) |->
               Rat(SumSeq(drawn[moonIdx[j]].Numbers),
                   Len(drawn[moonIdx[j]].Numbers))]))
      \* analyzeSpecificMoonPhases: a result for every phase group that has
      \* numbers, in the order of the range loop over phaseGroups
      phases == <<"New Moon", "Full Moon", "First Quarter", "Last Quarter">>
      InPhase(phase) ==
        {k \in 1..Len(drawn) : Cached(k) /\ Cosmic(k).MoonPhaseName = phase}
      PhaseResult(phase, ks) ==
        [Factor |-> "Moon Phase",
         SubFactor |-> phase \o " Lucky Numbers",
         Correlation |-> Rat(MaxFreq(ks), Total(ks)),
         PValue |-> Rat(5, 100),
         SampleSize |-> Total(ks),
         Significance |-> "Moderate",
         Interpretation |->
           <<"Number ", ToString(MaxNum(ks)), " appears ",
             Fixed(Rat(MaxFreq(ks) * 100, Total(ks)), 10),
             "% more frequently during ", phase>>]
      RECURSIVE PhaseResults(_)
      PhaseResults(k) ==
        IF k > 4 THEN <<>>
        ELSE LET phase == phases[((start[2] + k - 2) % 4) + 1]
             IN  (IF Total(InPhase(phase)) > 0
                  THEN <<PhaseResult(phase, InPhase(phase))>> ELSE <<>>)
                 \o PhaseResults(k + 1)
      \* analyzeSolarActivityCorrelations
      solarIdx == SelectSeq(Indices, HasSolar)
      solar ==
        Continuous(
          "Solar Activity", "Solar Wind vs High Numbers", Len(solarIdx),
          interpretSolarCorrelation,
          calculatePearsonCorrelation(
            [j \in 1..Len(solarIdx) |->
               Cosmic(solarIdx[j]).SolarActivity.SolarWindSpeed],
            [j \in 1..Len(solarIdx) |-> FromInt(HighCount(solarIdx[j]))]))
      \* analyzeWeatherCorrelations
      weatherIdx == SelectSeq(Indices, HasWeather)
      weather ==
        Continuous(
          "Weather", "Temperature vs Even/Odd Ratio", Len(weatherIdx),
          interpretWeatherCorrelation,
          calculatePearsonCorrelation(
            [j \in 1..Len(weatherIdx) |->
               Cosmic(weatherIdx[j]).WeatherData.Temperature],
            [j \in 1..Len(weatherIdx) |->
               Rat(EvenCount(weatherIdx[j]),
                   Len(drawn[weatherIdx[j]].Numbers))]))
      \* analyzeTemporalCorrelations: the frequencies are collected per day
      \* of the week and per season; the reporting loop ranges over
      \* dayFrequencies only, seasonFrequencies is not read again
      days == <<"Monday", "Tuesday", "Wednesday", "Thursday", "Friday",
                "Saturday", "Sunday">>
      OnDay(day) ==
        {k \in 1..Len(drawn) : Cached(k) /\ Cosmic(k).DayOfWeek = day}
      DayResult(day, ks) ==
        [Factor |-> "Temporal",
         SubFactor |-> day \o " Lucky Number",
         Correlation |-> Rat(MaxFreq(ks), Total(ks)),
         PValue |-> Rat(1, 10),
         SampleSize |-> Total(ks),
         Significance |-> "Low",
         Interpretation |->
           <<"Number ", ToString(MaxNum(ks)), " appears ",
             ToString(MaxFreq(ks)), " times on ", day>>]
      RECURSIVE DayResults(_)
      DayResults(k) ==
        IF k > 7 THEN <<>>
        ELSE LET day == days[((start[2] + k - 2) % 7) + 1]
             IN  (IF MaxFreq(OnDay(day)) > 10
                  THEN <<DayResult(day, OnDay(day))>> ELSE <<>>)
                 \o DayResults(k + 1)
      \* analyzePlanetaryCorrelations
      IsRetrograde(k) ==
        Rem(Trunc(Cosmic(k).PlanetaryPositions["Mercury"]), 120) < 20
      retrograde == {k \in 1..Len(drawn) : HasPlanets(k) /\ IsRetrograde(k)}
      normal == {k \in 1..Len(drawn) : HasPlanets(k) /\ ~IsRetrograde(k)}
      HighNumbers(ks) ==
        Cardinality({p \in ks \X (1..5) :
                       p[2] <= Len(drawn[p[1]].Numbers)
                       /\ drawn[p[1]].Numbers[p[2]] > 30})
      Planetary(retrogradeAvg, normalAvg) ==
        [Factor |-> "Planetary",
         SubFactor |-> "Mercury Retrograde Effect",
         Correlation |-> FSub(retrogradeAvg, normalAvg),
         PValue |-> Rat(15, 100),
         SampleSize |-> Cardinality(retrograde) + Cardinality(normal),
         Significance |-> "Low",
         Interpretation |->
           <<"Average high numbers: Retrograde=", Fixed(retrogradeAvg, 100),
             ", Normal=", Fixed(normalAvg, 100)>>]
      planetary ==
        IF retrograde # {} /\ normal # {}
        THEN <<Planetary(Rat(HighNumbers(retrograde), Cardinality(retrograde)),
                         Rat(HighNumbers(normal), Cardinality(normal)))>>
        ELSE <<>>
  IN  <<moon>> \o PhaseResults(1) \o <<solar>> \o <<weather>>
      \o DayResults(1) \o planetary

(* ------------------------------- inputs ------------------------------- *)

Row(date, nums, ball) ==
  <<date>> \o [j \in 1..Len(nums) |-> IntChars(nums[j])] \o <<IntChars(ball)>>

Header == [j \in 1..NumFields |-> <<"h">>]

\* rows that parseDrawings stores and analyzeData processes
StoredRows ==
  {Row(DateChars(1, 3, 2024), <<2, 11, 23, 34, 41>>, 3),
   Row(DateChars(1, 9, 2024), <<23, 5, 6, 18, 22>>, 7),
   Row(DateChars(1, 15, 2024), <<5, 12, 23, 34, 45>>, 7),
   Row(DateChars(1, 12, 2024), <<5, 5, 23, 34, 45>>, 7)}

\* rows that are malformed or out of range
OddRows ==
  {Row(DateChars(1, 1, 2020), <<49, 2, 3, 4, 5>>, 6),
   Row(DateChars(1, 1, 2020), <<1, 2, 3, 4, 5>>, 19),
   Row(DateChars(13, 13, 2020), <<1, 2, 3, 4, 5>>, 6),
   Row(<<>>, <<1, 2, 3, 4, 5>>, 6),
   <<DateChars(1, 12, 2024), <<"a", "b", "c">>, IntChars(15), IntChars(22),
     IntChars(38), IntChars(44), IntChars(12)>>,
   <<DateChars(1, 9, 2024), IntChars(5), IntChars(18), IntChars(23),
     IntChars(35), IntChars(42), <<"x", "y", "z">>>>,
   <<DateChars(1, 1, 2020), IntChars(1), IntChars(2), IntChars(3),
     IntChars(4), IntChars(5)>>}

\* the files read: no record at all, or a header and up to MaxRows rows, at
\* most one of them odd
Files ==
  {<<>>} \cup
  {<<Header>> \o body :
     body \in {b \in UNION {[1..n -> StoredRows \cup OddRows] : n \in 0..MaxRows} :
                 Cardinality({k \in DOMAIN b : b[k] \in OddRows}) <= 1}}

\* config.RecentWindow as passed by the caller
RecentWindows == {0, 2}

(* -------------------------------- state ------------------------------- *)

VARIABLES
  records,          \* the CSV records read from the file
  config,           \* the sanitized AnalysisConfig (RecentWindow)
  ctxDone,          \* the context was found cancelled
  pc,               \* position in NewAnalyzer, then "ready", "answered",
                    \* "replied" or "panic"
  i,                \* row cursor of parseDrawings (1-based; 2 = first data row)
  idx,              \* drawing cursor of analyzeData (0-based)
  drawings,
  mainNumbers,
  luckyBalls,
  pairPatterns,
  triplePatterns,
  quadPatterns,
  patternStats,
  chiSquareValue,
  randomnessScore,
  scoredNumbers,    \* the last result of scoreNumbersByStrategy
  recommendation    \* the last result of generateSetByStrategy

VARIABLES
  now,              \* the reading of time.Now()
  cosmicData,       \* the engine's cache: date key -> CosmicData
  prediction,       \* the last result of PredictBasedOnCosmicConditions
  answers,          \* the last two predictions with the dates asked on
  call,             \* a call of one of the engine's functions
  correlationResults, \* the engine's collection of correlation results
  reply             \* what the last operation called was given and returned

analysis ==
  <<drawings, mainNumbers, luckyBalls, pairPatterns, triplePatterns,
    quadPatterns, patternStats, chiSquareValue, randomnessScore>>

vars ==
  <<records, config, ctxDone, pc, i, idx, drawings, mainNumbers, luckyBalls,
    pairPatterns, triplePatterns, quadPatterns, patternStats, chiSquareValue,
    randomnessScore, scoredNumbers, recommendation, now, cosmicData,
    prediction, answers, call, correlationResults, reply>>

cosmos ==
  <<now, cosmicData, prediction, answers, call, correlationResults, reply>>

NoRecommendation ==
  [Strategy |-> "", Numbers |-> <<>>, LuckyBall |-> 0,
   Confidence |-> [randomnessScore |-> RandomnessOf(Zero, Zero), weight |-> 0]]

\* the float64 zero value of randomnessScore: both ratios 1
ZeroScore == [mainRatio |-> One, luckyRatio |-> One]

\* the analyzer as NewAnalyzer builds it before parsing
FreshAnalysis ==
  /\ drawings = <<>>
  /\ mainNumbers = [num \in 1..MainMax |-> NewNumberInfo(num)]
  /\ luckyBalls = [num \in 1..LuckyMax |-> NewNumberInfo(num)]
  /\ pairPatterns = EmptyMap
  /\ triplePatterns = EmptyMap
  /\ quadPatterns = EmptyMap
  /\ patternStats = NewPatternStats
  /\ chiSquareValue = Zero
  /\ randomnessScore = ZeroScore

\* the config checks at the head of NewAnalyzer
SanitizeRecentWindow(w) == IF w <= 0 THEN DefaultRecentWindow ELSE w

\* no function of the engine is being called
NoCall == [fn |-> "", in |-> <<>>, done |-> FALSE, out |-> <<>>]

\* no engine has been built
EngineIdle ==
  /\ now = At([y |-> 2024, m |-> 1, d |-> 15], 0)
  /\ cosmicData = EmptyMap
  /\ prediction = <<>>
  /\ answers = <<>>
  /\ correlationResults = <<>>
  /\ reply = [op |-> "", in |-> <<>>, out |-> <<>>]

Init ==
  /\ records \in Files
  /\ config \in {[RecentWindow |-> SanitizeRecentWindow(w)] : w \in RecentWindows}
  /\ ctxDone = FALSE
  /\ pc = "parse"
  /\ i = 2
  /\ idx = 0
  /\ FreshAnalysis
  /\ scoredNumbers = <<>>
  /\ recommendation = NoRecommendation
  /\ EngineIdle
  /\ call = NoCall

(* ------------------------------- actions ------------------------------ *)

\* NewAnalyzer returns (nil, err), or the process dies: no analyzer is left
Abandon ==
  /\ records' = <<>>
  /\ i' = 0
  /\ drawings' = <<>>
  /\ mainNumbers' = [num \in 1..MainMax |-> NewNumberInfo(num)]
  /\ luckyBalls' = [num \in 1..LuckyMax |-> NewNumberInfo(num)]
  /\ pairPatterns' = EmptyMap
  /\ triplePatterns' = EmptyMap
  /\ quadPatterns' = EmptyMap
  /\ patternStats' = NewPatternStats
  /\ chiSquareValue' = Zero
  /\ randomnessScore' = ZeroScore

\* parseDrawings: one iteration of the row loop with the context live
ParseRow ==
  /\ pc = "parse"
  /\ i <= Len(records)
  /\ drawings' =
       IF RowAccepted(records[i])
       THEN Append(drawings, RowDrawing(records[i], Len(drawings)))
       ELSE drawings
  /\ i' = i + 1
  /\ UNCHANGED <<records, config, ctxDone, pc, idx, mainNumbers, luckyBalls,
                 pairPatterns, triplePatterns, quadPatterns, patternStats,
                 chiSquareValue, randomnessScore, scoredNumbers, recommendation>>
  /\ UNCHANGED cosmos

\* parseDrawings: the row loop finds the context cancelled; NewAnalyzer fails
ParseCancelled ==
  /\ pc = "parse"
  /\ i <= Len(records)
  /\ ctxDone' = TRUE
  /\ pc' = "error"
  /\ Abandon
  /\ UNCHANGED <<config, idx, scoredNumbers, recommendation>>
  /\ UNCHANGED cosmos

\* parseDrawings: the row loop is over; reverse, re-index, return (records
\* and the row cursor are not read again)
ParseDone ==
  /\ pc = "parse"
  /\ i > Len(records)
  /\ drawings' = Reindex(Reverse(drawings))
  /\ pc' = "analyze"
  /\ idx' = 0
  /\ records' = <<>>
  /\ i' = 0
  /\ UNCHANGED <<config, ctxDone, mainNumbers, luckyBalls,
                 pairPatterns, triplePatterns, quadPatterns, patternStats,
                 chiSquareValue, randomnessScore, scoredNumbers, recommendation>>
  /\ UNCHANGED cosmos

\* analyzeData: one iteration of the drawing loop with the context live
AnalyzeDrawing ==
  /\ pc = "analyze"
  /\ idx < Len(drawings)
  /\ LET drawing == drawings[idx + 1]
     IN  IF NilDereference(drawing)
         THEN /\ pc' = "panic"
              /\ Abandon
              /\ idx' = 0
         ELSE /\ mainNumbers' =
                   TrackMain(mainNumbers, drawing.Numbers, 1, idx, drawing.Date,
                             config.RecentWindow)
              /\ luckyBalls' =
                   [luckyBalls EXCEPT ![drawing.LuckyBall] =
                      TrackNumber(@, idx, drawing.Date, config.RecentWindow)]
              /\ pairPatterns' =
                   analyzeCombinations(pairPatterns, PairIdx, drawing.Numbers, idx)
              /\ triplePatterns' =
                   analyzeCombinations(triplePatterns, TripleIdx, drawing.Numbers, idx)
              /\ quadPatterns' =
                   analyzeCombinations(quadPatterns, QuadIdx, drawing.Numbers, idx)
              /\ patternStats' = analyzePatterns(patternStats, drawing)
              /\ idx' = idx + 1
              /\ UNCHANGED <<records, i, pc, drawings, chiSquareValue,
                             randomnessScore>>
  /\ UNCHANGED <<config, ctxDone, scoredNumbers, recommendation>>
  /\ UNCHANGED cosmos

\* analyzeData: the drawing loop finds the context cancelled; NewAnalyzer fails
AnalyzeCancelled ==
  /\ pc = "analyze"
  /\ idx < Len(drawings)
  /\ ctxDone' = TRUE
  /\ pc' = "error"
  /\ Abandon
  /\ idx' = 0
  /\ UNCHANGED <<config, scoredNumbers, recommendation>>
  /\ UNCHANGED cosmos

\* the statistics passes run and NewAnalyzer returns the analyzer although
\* drawings are still unprocessed (variant the all-or-nothing property of
\* C24 must reject)
AnalyzeDone_OnPrefix ==
  /\ pc = "analyze"
  /\ idx <= Len(drawings)
  /\ LET n == Len(drawings)
         mainStats == calculateStatistics(mainNumbers, Rat(n * 5, MainMax))
         luckyStats == calculateStatistics(luckyBalls, Rat(n, LuckyMax))
         chiSquareMain == ChiSum(mainStats, 1, MainMax)
         chiSquareLucky == ChiSum(luckyStats, 1, LuckyMax)
     IN  /\ mainNumbers' = WithChiComponents(mainStats)
         /\ luckyBalls' = WithChiComponents(luckyStats)
         /\ chiSquareValue' = FAdd(chiSquareMain, chiSquareLucky)
         /\ randomnessScore' = RandomnessOf(chiSquareMain, chiSquareLucky)
  /\ pc' = "ready"
  /\ UNCHANGED <<records, config, ctxDone, i, idx, drawings, pairPatterns,
                 triplePatterns, quadPatterns, patternStats, scoredNumbers,
                 recommendation>>
  /\ UNCHANGED cosmos

\* analyzeData: the drawing loop is over; calculateStatistics, then
\* calculateChiSquare; NewAnalyzer returns the analyzer
AnalyzeDone ==
  /\ pc = "analyze"
  /\ idx = Len(drawings)
  /\ LET n == Len(drawings)
         mainStats == calculateStatistics(mainNumbers, Rat(n * 5, MainMax))
         luckyStats == calculateStatistics(luckyBalls, Rat(n, LuckyMax))
         chiSquareMain == ChiSum(mainStats, 1, MainMax)
         chiSquareLucky == ChiSum(luckyStats, 1, LuckyMax)
     IN  /\ mainNumbers' = WithChiComponents(mainStats)
         /\ luckyBalls' = WithChiComponents(luckyStats)
         /\ chiSquareValue' = FAdd(chiSquareMain, chiSquareLucky)
         /\ randomnessScore' = RandomnessOf(chiSquareMain, chiSquareLucky)
  /\ pc' = "ready"
  /\ UNCHANGED <<records, config, ctxDone, i, idx, drawings, pairPatterns,
                 triplePatterns, quadPatterns, patternStats, scoredNumbers,
                 recommendation>>
  /\ UNCHANGED cosmos

\* where the range loops over a.mainNumbers and over a.luckyBalls start
IterationStarts == {<<1, 1>>, <<23, 7>>}

\* generateSetByStrategy(strategy), for the five strategies and an unknown one
GenerateSet ==
  /\ pc = "ready"
  /\ \E strategy \in Strategies \cup {"lucky"} :
     \E start \in IterationStarts :
       LET scored ==
             scoreNumbersByStrategy(strategy, mainNumbers, Len(drawings),
                                    pairPatterns, MapOrder(start[1], MainMax))
           luckyScores ==
             scoreLuckyBalls(luckyBalls, MapOrder(start[2], LuckyMax))
       IN  /\ scoredNumbers' = scored
           /\ recommendation' =
                generateSetByStrategy(strategy, scored, luckyScores,
                                      randomnessScore)
  /\ pc' = "answered"
  /\ UNCHANGED <<records, config, ctxDone, i, idx, drawings, mainNumbers,
                 luckyBalls, pairPatterns, triplePatterns, quadPatterns,
                 patternStats, chiSquareValue, randomnessScore>>
  /\ UNCHANGED cosmos

\* GetTopNumbers(count, recent): the infos in map order, sorted by the
\* frequency asked for, cut to count; numbers[:count] panics on a negative
\* count, the analyzer being left as it was
GetTopNumbers ==
  /\ pc = "ready"
  /\ \E count \in {0 - 1, 5, 50}, recent \in BOOLEAN, start \in IterationStarts :
       LET order == MapOrder(start[1], MainMax)
           Frequency(info) ==
             IF recent THEN info.RecentFrequency ELSE info.TotalFrequency
           numbers ==
             SortByScore([k \in 1..MainMax |->
                            [Number |-> order[k],
                             Score |-> FromInt(Frequency(mainNumbers[order[k]]))]])
           kept == IF count > Len(numbers) THEN Len(numbers) ELSE count
           in == [count |-> count, recent |-> recent]
       IN  IF kept < 0
           THEN /\ pc' = "panic"
                /\ reply' = [op |-> "GetTopNumbers", in |-> in,
                             out |-> [panic |-> TRUE]]
           ELSE /\ pc' = "replied"
                /\ reply' =
                     [op |-> "GetTopNumbers", in |-> in,
                      out |-> [numbers |-> [k \in 1..kept |-> numbers[k].Number]]]
  /\ UNCHANGED <<records, config, ctxDone, i, idx, analysis, scoredNumbers,
                 recommendation, now, cosmicData, prediction, answers, call,
                 correlationResults>>

\* GetOverdueNumbers(count): the infos whose current gap exceeds
\* AverageGap * MinGapMultiplier (1.5 unless configured), sorted by
\* CurrentGap / AverageGap, cut to count
GetOverdueNumbers ==
  /\ pc = "ready"
  /\ \E count \in {0 - 1, 5, 50}, start \in IterationStarts :
       LET order == MapOrder(start[1], MainMax)
           IsOverdue(entry) ==
             LET info == mainNumbers[entry.Number]
             IN  /\ FGreater(info.AverageGap, Zero)
                 /\ FGreater(FromInt(info.CurrentGap),
                             FMul(info.AverageGap, Rat(3, 2)))
           Ratio(info) ==
             IF FGreater(info.AverageGap, Zero)
             THEN FDiv(FromInt(info.CurrentGap), info.AverageGap) ELSE Zero
           overdue ==
             SortByScore(SelectSeq([k \in 1..MainMax |->
                                      [Number |-> order[k],
                                       Score |-> Ratio(mainNumbers[order[k]])]],
                                   IsOverdue))
           kept == IF count > Len(overdue) THEN Len(overdue) ELSE count
       IN  IF kept < 0
           THEN /\ pc' = "panic"
                /\ reply' = [op |-> "GetOverdueNumbers", in |-> [count |-> count],
                             out |-> [panic |-> TRUE]]
           ELSE /\ pc' = "replied"
                /\ reply' =
                     [op |-> "GetOverdueNumbers", in |-> [count |-> count],
                      out |-> [numbers |-> [k \in 1..kept |-> overdue[k].Number]]]
  /\ UNCHANGED <<records, config, ctxDone, i, idx, analysis, scoredNumbers,
                 recommendation, now, cosmicData, prediction, answers, call,
                 correlationResults>>

\* GenerateRecommendations(ctx, count): make([]RecommendedSet, 0, count)
\* panics on a negative count; the loop makes one set per strategy while
\* i < count and i < 5, and returns what it has with ctx.Err() at the first
\* iteration that finds the context cancelled (stop; 6 when none does)
GenerateRecommendations ==
  /\ pc = "ready"
  /\ \E start \in IterationStarts :
       LET strategies == <<"balanced", "hot", "overdue", "pattern", "frequency">>
           Set(strategy) ==
             generateSetByStrategy(
               strategy,
               scoreNumbersByStrategy(strategy, mainNumbers, Len(drawings),
                                      pairPatterns, MapOrder(start[1], MainMax)),
               scoreLuckyBalls(luckyBalls, MapOrder(start[2], LuckyMax)),
               randomnessScore)
           Made(count, stop, sets) ==
             LET limit == IF count < 5 THEN count ELSE 5
                 made == IF stop <= limit THEN stop - 1 ELSE limit
                 in == [count |-> count, stop |-> stop]
             IN  IF count < 0
                 THEN /\ pc' = "panic"
                      /\ reply' = [op |-> "GenerateRecommendations", in |-> in,
                                   out |-> [panic |-> TRUE]]
                 ELSE /\ pc' = "replied"
                      /\ reply' =
                           [op |-> "GenerateRecommendations", in |-> in,
                            out |-> [recommendations |-> SubSeq(sets, 1, made),
                                     err |-> IF stop <= limit
                                             THEN "context canceled" ELSE "nil"]]
           Calls(sets) ==
             \E count \in {0 - 1, 0, 3, 5, 10}, stop \in {1, 3, 6} :
               Made(count, stop, sets)
       IN  Calls([k \in 1..5 |-> Set(strategies[k])])
  /\ UNCHANGED <<records, config, ctxDone, i, idx, analysis, scoredNumbers,
                 recommendation, now, cosmicData, prediction, answers, call,
                 correlationResults>>

\* the caller drops the result; the analyzer is ready for the next call
Return ==
  /\ pc \in {"answered", "replied"}
  /\ pc' = "ready"
  /\ scoredNumbers' = <<>>
  /\ recommendation' = NoRecommendation
  /\ reply' = [op |-> "", in |-> <<>>, out |-> <<>>]
  /\ UNCHANGED <<records, config, ctxDone, i, idx, drawings, mainNumbers,
                 luckyBalls, pairPatterns, triplePatterns, quadPatterns,
                 patternStats, chiSquareValue, randomnessScore>>
  /\ UNCHANGED <<now, cosmicData, prediction, answers, call,
                 correlationResults>>

Next ==
  \/ ParseRow
  \/ ParseCancelled
  \/ ParseDone
  \/ AnalyzeDrawing
  \/ AnalyzeCancelled
  \/ AnalyzeDone
  \/ GenerateSet
  \/ Return

Spec == Init /\ [][Next]_vars

(* ----------------------- the correlation engine ----------------------- *)

analyzerVars ==
  <<records, config, ctxDone, pc, i, idx, drawings, mainNumbers, luckyBalls,
    pairPatterns, triplePatterns, quadPatterns, patternStats, chiSquareValue,
    randomnessScore, scoredNumbers, recommendation>>

\* the files the engine runs are built on: a header alone, one drawing, two
\* drawings of the same year, three drawings of one number on three
\* Wednesdays
CosmicFiles ==
  {<<Header>>,
   <<Header, Row(DateChars(1, 15, 2024), <<5, 12, 23, 34, 45>>, 7)>>,
   <<Header, Row(DateChars(1, 3, 2024), <<2, 11, 23, 34, 41>>, 3),
     Row(DateChars(1, 9, 2024), <<23, 5, 6, 18, 22>>, 7)>>,
   <<Header, Row(DateChars(1, 3, 2024), <<7, 7, 7, 7, 7>>, 3),
     Row(DateChars(1, 10, 2024), <<7, 7, 7, 7, 7>>, 3),
     Row(DateChars(1, 17, 2024), <<7, 7, 7, 7, 7>>, 3)>>}

\* the readings of time.Now(): a drawn date, other dates of a drawing year,
\* a date of a year without drawings; morning and evening
Clock ==
  {At(date, minute) :
     date \in {[y |-> 2024, m |-> 1, d |-> 14], [y |-> 2024, m |-> 1, d |-> 15],
               [y |-> 2024, m |-> 10, d |-> 30], [y |-> 2025, m |-> 3, d |-> 2]},
     minute \in {9 * 60, 21 * 60}}

CosmicInit ==
  /\ records \in CosmicFiles
  /\ config = [RecentWindow |-> SanitizeRecentWindow(0)]
  /\ ctxDone = FALSE
  /\ pc = "parse"
  /\ i = 2
  /\ idx = 0
  /\ FreshAnalysis
  /\ scoredNumbers = <<>>
  /\ recommendation = NoRecommendation
  /\ now \in Clock
  /\ cosmicData = EmptyMap
  /\ prediction = <<>>
  /\ answers = <<>>
  /\ correlationResults = <<>>
  /\ reply = [op |-> "", in |-> <<>>, out |-> <<>>]
  /\ call = NoCall

\* NewCorrelationEngine(analyzer), then EnrichWithCosmicData
\* EnrichWithCosmicData(ctx): the context, cancelled or not, is not read;
\* the reply keeps the error returned and how many records the call added
Enrich ==
  /\ pc = "ready"
  /\ \E enriched \in {EnrichWithCosmicData(cosmicData, drawings)},
        cancelled \in BOOLEAN :
       /\ cosmicData' = enriched
       /\ reply' =
            [op |-> "EnrichWithCosmicData",
             in |-> [ctxCancelled |-> cancelled],
             out |-> [err |-> "nil",
                      added |-> Cardinality((DOMAIN enriched) \
                                              (DOMAIN cosmicData))]]
  /\ pc' = "replied"
  /\ UNCHANGED <<records, config, ctxDone, i, idx, analysis, scoredNumbers,
                 recommendation, now, prediction, answers, call,
                 correlationResults>>

\* a variant that keeps the record it computes for an uncached date
Predict_CachesToday ==
  /\ pc = "ready"
  /\ LET numbers == PredictBasedOnCosmicConditions(cosmicData, now)
         answer == [date |-> now.date, numbers |-> numbers]
     IN  /\ prediction' = numbers
         /\ answers' = IF answers = <<>> THEN <<answer>>
                       ELSE <<answers[Len(answers)], answer>>
  /\ cosmicData' =
       IF DateKey(now) \in DOMAIN cosmicData THEN cosmicData
       ELSE cosmicData @@
            (DateKey(now) :>
               addMockDataForDemo(calculateAstronomicalData(
                 WithMoon(NewCosmicData(now), now))))
  /\ UNCHANGED <<analyzerVars, now, call, correlationResults, reply>>

\* PredictBasedOnCosmicConditions; answers keeps the last two results with
\* the dates they were asked on
Predict ==
  /\ pc = "ready"
  /\ LET numbers == PredictBasedOnCosmicConditions(cosmicData, now)
         answer == [date |-> now.date, numbers |-> numbers]
     IN  /\ prediction' = numbers
         /\ answers' = IF answers = <<>> THEN <<answer>>
                       ELSE <<answers[Len(answers)], answer>>
  /\ UNCHANGED <<analyzerVars, now, cosmicData, call, correlationResults,
                 reply>>

\* time passes
Tick ==
  /\ pc = "ready"
  /\ \E later \in Clock :
       /\ MinutesBetween(later, now) > 0
       /\ now' = later
  /\ UNCHANGED <<analyzerVars, cosmicData, prediction, answers, call,
                 correlationResults, reply>>

CosmicNext ==
  \/ ParseRow
  \/ ParseCancelled
  \/ ParseDone
  \/ AnalyzeDrawing
  \/ AnalyzeCancelled
  \/ AnalyzeDone
  \/ Enrich
  \/ Predict
  \/ Tick
  \/ Return

CosmicSpec == CosmicInit /\ [][CosmicNext]_vars

(* ------------------- the operations, one call each -------------------- *)

\* a variant that returns early when nothing is cached
Analyze_SkipsEmptyCache ==
  /\ pc = "ready"
  /\ \E start \in IterationStarts :
       correlationResults' =
         IF cosmicData = EmptyMap THEN <<>>
         ELSE AnalyzeCorrelations(drawings, cosmicData, start)
  /\ reply' = [op |-> "AnalyzeCorrelations", in |-> <<>>,
               out |-> [err |-> "nil"]]
  /\ pc' = "replied"
  /\ UNCHANGED <<records, config, ctxDone, i, idx, analysis, scoredNumbers,
                 recommendation, now, cosmicData, prediction, answers, call>>

\* AnalyzeCorrelations(ctx): the collection is replaced, nil is returned
Analyze ==
  /\ pc = "ready"
  /\ \E start \in IterationStarts :
       correlationResults' = AnalyzeCorrelations(drawings, cosmicData, start)
  /\ reply' = [op |-> "AnalyzeCorrelations", in |-> <<>>,
               out |-> [err |-> "nil"]]
  /\ pc' = "replied"
  /\ UNCHANGED <<records, config, ctxDone, i, idx, analysis, scoredNumbers,
                 recommendation, now, cosmicData, prediction, answers, call>>

\* RunAnalysis(ctx) with config.OutputMode set by the caller: enrichment,
\* correlation analysis, then the report of the mode.  The detailed report
\* (the default of the switch) and the cosmic report print
\* a.drawings[len(a.drawings)-1] and a.drawings[0]; the detailed report
\* returns the error of GenerateRecommendations(ctx, 5), the others drop it.
\* What the reports print is not kept.
RunAnalysis ==
  /\ pc = "ready"
  /\ LET Report(mode, cancelled) ==
           LET in == [OutputMode |-> mode, ctxCancelled |-> cancelled]
           IN  IF mode \notin {"simple", "statistical"} /\ Len(drawings) = 0
               THEN /\ pc' = "panic"
                    /\ reply' = [op |-> "RunAnalysis", in |-> in,
                                 out |-> [panic |-> TRUE]]
               ELSE /\ pc' = "replied"
                    /\ reply' =
                         [op |-> "RunAnalysis", in |-> in,
                          out |-> [err |-> IF cancelled /\ mode \notin
                                                {"simple", "statistical", "cosmic"}
                                           THEN "context canceled" ELSE "nil"]]
     IN  \E enriched \in {EnrichWithCosmicData(cosmicData, drawings)} :
           /\ cosmicData' = enriched
           /\ \E start \in IterationStarts :
                correlationResults' =
                  AnalyzeCorrelations(drawings, enriched, start)
           /\ \E mode \in {"simple", "detailed", "statistical", "cosmic",
                            "unknown"},
                 cancelled \in BOOLEAN :
                Report(mode, cancelled)
  /\ UNCHANGED <<records, config, ctxDone, i, idx, analysis, scoredNumbers,
                 recommendation, now, prediction, answers, call>>

QueryNext ==
  \/ ParseRow
  \/ ParseCancelled
  \/ ParseDone
  \/ AnalyzeDrawing
  \/ AnalyzeCancelled
  \/ AnalyzeDone
  \/ Enrich
  \/ Analyze
  \/ Predict
  \/ GetTopNumbers
  \/ GetOverdueNumbers
  \/ GenerateRecommendations
  \/ RunAnalysis
  \/ Return

\* a file is about to be read on the morning of 2024-01-15
QueryInit ==
  /\ CosmicInit
  /\ now = At([y |-> 2024, m |-> 1, d |-> 15], 9 * 60)

\* every operation of the analyzer and of its engine, called in any order
QuerySpec == QueryInit /\ [][QueryNext]_vars

(* ------------------ the engine's functions, one call ------------------ *)

\* the instants the date functions are called with: every day of a leap
\* year, the epochs, dates before them; several times of day
Instants ==
  {At(date, minute) :
     date \in DaysOfYear(2024) \cup
              {[y |-> 1900, m |-> 1, d |-> 1], [y |-> 1969, m |-> 7, d |-> 20],
               [y |-> 1970, m |-> 1, d |-> 1], [y |-> 1999, m |-> 12, d |-> 31],
               [y |-> 2000, m |-> 1, d |-> 1], [y |-> 2000, m |-> 1, d |-> 6],
               [y |-> 2000, m |-> 1, d |-> 7], [y |-> 2023, m |-> 2, d |-> 28]},
     minute \in {0, 12 * 60, 18 * 60 + 14, 23 * 60 + 59}}

\* phases given to getMoonPhaseName: every 1/64 of [0, 1)
Phases == {Rat(k, 64) : k \in 0..63}

\* the series given to calculatePearsonCorrelation: up to three small
\* numbers, or a single infinite or NaN point
Series ==
  UNION {[1..n -> {FromInt(0), FromInt(1), FromInt(3)}] : n \in 0..3} \cup
  {<<PosInf>>, <<NegInf>>, <<NaN>>, <<FromInt(1), PosInf>>}

\* (corr, pValue) pairs given to the interpreters
Correlations ==
  {NaN, PosInf, NegInf, Zero, Rat(1, 2), Rat(0 - 1234, 10000), One,
   FromInt(0 - 1)}

PValues == {NaN, PosInf, Zero, Rat(1, 100), Rat(1, 10), Rat(1, 2), One}

Interpreters == {"interpretMoonCorrelation", "interpretSolarCorrelation",
                 "interpretWeatherCorrelation"}

\* the calls made: a function, its argument, and no result yet
Calls ==
  LET NewCall(fn, in) == [fn |-> fn, in |-> in, done |-> FALSE, out |-> <<>>]
  IN  {NewCall(fn, t) :
         fn \in {"calculateMoonPhase", "getZodiacSign", "getSeasonalPhase",
                 "calculatePlanetaryPositions"},
         t \in Instants}
      \cup {NewCall("getMoonPhaseName", p) : p \in Phases}
      \cup {NewCall("calculatePearsonCorrelation", [x |-> x, y |-> y]) :
              x \in Series, y \in Series}
      \cup {NewCall(fn, [corr |-> c, pValue |-> p]) :
              fn \in Interpreters, c \in Correlations, p \in PValues}

FunctionInit ==
  /\ records = <<>>
  /\ config = [RecentWindow |-> SanitizeRecentWindow(0)]
  /\ ctxDone = FALSE
  /\ pc = "call"
  /\ i = 0
  /\ idx = 0
  /\ FreshAnalysis
  /\ scoredNumbers = <<>>
  /\ recommendation = NoRecommendation
  /\ EngineIdle
  /\ call \in Calls

Returns(fn, out) ==
  /\ pc = "call"
  /\ call.fn = fn
  /\ ~call.done
  /\ call' = [call EXCEPT !.done = TRUE, !.out = out]
  /\ UNCHANGED <<analyzerVars, now, cosmicData, prediction, answers,
                 correlationResults, reply>>

CallMoonPhase ==
  Returns("calculateMoonPhase", calculateMoonPhase(call.in))

CallMoonPhaseName ==
  Returns("getMoonPhaseName", getMoonPhaseName(call.in))

CallZodiacSign ==
  Returns("getZodiacSign", getZodiacSign(call.in.date))

CallSeasonalPhase ==
  Returns("getSeasonalPhase", getSeasonalPhase(call.in.date))

CallPlanetaryPositions ==
  Returns("calculatePlanetaryPositions", calculatePlanetaryPositions(call.in))

CallPearsonCorrelation ==
  Returns("calculatePearsonCorrelation",
          calculatePearsonCorrelation(call.in.x, call.in.y))

CallInterpretMoon ==
  Returns("interpretMoonCorrelation",
          interpretMoonCorrelation(call.in.corr, call.in.pValue))

CallInterpretSolar ==
  Returns("interpretSolarCorrelation",
          interpretSolarCorrelation(call.in.corr, call.in.pValue))

CallInterpretWeather ==
  Returns("interpretWeatherCorrelation",
          interpretWeatherCorrelation(call.in.corr, call.in.pValue))

FunctionNext ==
  \/ CallMoonPhase
  \/ CallMoonPhaseName
  \/ CallZodiacSign
  \/ CallSeasonalPhase
  \/ CallPlanetaryPositions
  \/ CallPearsonCorrelation
  \/ CallInterpretMoon
  \/ CallInterpretSolar
  \/ CallInterpretWeather

FunctionSpec == FunctionInit /\ [][FunctionNext]_vars

(* ------------------------ what the claims speak of -------------------- *)

\* the accumulation pass has started: drawings is in its final order and the
\* drawings at indices 0..idx-1 have been accumulated
Accumulating == pc \in {"analyze", "ready", "answered"}

Built == pc \in {"ready", "answered"}

\* a drawing with 5 pairwise-distinct main numbers in range and a lucky ball
\* in range
WellFormed(drawing) ==
  /\ Len(drawing.Numbers) = 5
  /\ Cardinality(Range(drawing.Numbers)) = 5
  /\ Range(drawing.Numbers) \subseteq 1..MainMax
  /\ drawing.LuckyBall \in 1..LuckyMax

ProcessedWellFormed == \A j \in 1..idx : WellFormed(drawings[j])

\* the indices below k, ascending, of the drawings that hold num as a main
\* number / as the lucky ball
MainAppearances(num, k) ==
  LET Holds(index) == num \in Range(drawings[index + 1].Numbers)
  IN  SelectSeq([j \in 1..k |-> j - 1], Holds)

LuckyAppearances(num, k) ==
  LET Holds(index) == drawings[index + 1].LuckyBall = num
  IN  SelectSeq([j \in 1..k |-> j - 1], Holds)

GapBookkeeping(info, seen) ==
  /\ info.TotalFrequency = Len(seen)
  /\ info.GapsSinceDrawn = [t \in 1..(Len(seen) - 1) |-> seen[t + 1] - seen[t]]
  /\ Len(info.GapsSinceDrawn) = (IF Len(seen) = 0 THEN 0 ELSE Len(seen) - 1)
  /\ \A t \in 1..Len(info.GapsSinceDrawn) : info.GapsSinceDrawn[t] >= 1
  /\ info.LastDrawnIndex = (IF Len(seen) = 0 THEN -1 ELSE seen[Len(seen)])

\* C1: after every prefix 0..idx-1 of the accumulation pass over well-formed
\* drawings, every main number and every lucky ball has TotalFrequency equal
\* to the number of processed drawings holding it, GapsSinceDrawn equal to the
\* differences of consecutive appearance indices (max(TotalFrequency-1, 0)
\* entries, each >= 1), and LastDrawnIndex the largest appearance index or -1
C1_GapBookkeeping ==
  (Accumulating /\ ProcessedWellFormed) =>
    /\ \A num \in 1..MainMax :
         GapBookkeeping(mainNumbers[num], MainAppearances(num, idx))
    /\ \A num \in 1..LuckyMax :
         GapBookkeeping(luckyBalls[num], LuckyAppearances(num, idx))

\* a number drawn in three processed drawings with a recorded gap of 2, and a
\* lucky ball drawn twice, all drawings being well-formed
C1_Witness ==
  /\ Accumulating /\ ProcessedWellFormed /\ idx = 3
  /\ \E num \in 1..MainMax : mainNumbers[num].GapsSinceDrawn = <<2>>
  /\ \E num \in 1..MainMax : mainNumbers[num].GapsSinceDrawn = <<1, 1>>
  /\ \E num \in 1..LuckyMax : luckyBalls[num].TotalFrequency = 2

\* C2 (as claimed): after the statistics pass, CurrentGap of every main
\* number and lucky ball drawn at least once is the smallest drawing index at
\* which it appears
C2_CurrentGapIsSmallestIndex ==
  (Built /\ ProcessedWellFormed) =>
    /\ \A num \in 1..MainMax :
         LET seen == MainAppearances(num, Len(drawings))
         IN  Len(seen) > 0 => mainNumbers[num].CurrentGap = seen[1]
    /\ \A num \in 1..LuckyMax :
         LET seen == LuckyAppearances(num, Len(drawings))
         IN  Len(seen) > 0 => luckyBalls[num].CurrentGap = seen[1]

\* the dates of the drawings are pairwise different
DistinctDates ==
  \A j, k \in 1..Len(drawings) : j # k => drawings[j].Date # drawings[k].Date

\* fewer than RecentWindow drawings are more recent than drawings[j]
AmongMostRecent(j) ==
  Cardinality({k \in 1..Len(drawings) :
                 DateBefore(drawings[j].Date, drawings[k].Date)})
    < config.RecentWindow

\* C3 (as claimed): RecentFrequency of every tracked number is the number of
\* drawings, among the RecentWindow most recent ones, that hold it; and
\* 0 <= RecentFrequency <= min(TotalFrequency, RecentWindow)
C3_RecentFrequencyCountsMostRecent ==
  (Built /\ ProcessedWellFormed /\ DistinctDates) =>
    /\ \A num \in 1..MainMax :
         /\ mainNumbers[num].RecentFrequency =
              Cardinality({j \in 1..Len(drawings) :
                             /\ AmongMostRecent(j)
                             /\ num \in Range(drawings[j].Numbers)})
         /\ mainNumbers[num].RecentFrequency >= 0
         /\ mainNumbers[num].RecentFrequency <= mainNumbers[num].TotalFrequency
         /\ mainNumbers[num].RecentFrequency <= config.RecentWindow
    /\ \A num \in 1..LuckyMax :
         /\ luckyBalls[num].RecentFrequency =
              Cardinality({j \in 1..Len(drawings) :
                             /\ AmongMostRecent(j)
                             /\ drawings[j].LuckyBall = num})
         /\ luckyBalls[num].RecentFrequency >= 0
         /\ luckyBalls[num].RecentFrequency <= luckyBalls[num].TotalFrequency
         /\ luckyBalls[num].RecentFrequency <= config.RecentWindow

\* C4 (as claimed): after ingestion drawings[i].Index = i for every i, and
\* no drawing is older than a drawing at a greater index
C4_NewestFirst ==
  Accumulating =>
    /\ \A j \in 1..Len(drawings) : drawings[j].Index = j - 1
    /\ \A j, k \in 1..Len(drawings) :
         j < k => ~DateBefore(drawings[j].Date, drawings[k].Date)

\* C5 (as claimed): every drawing the analyzer holds is well-formed, and
\* construction does not fail on a row that is not
C5_StoredDrawingsWellFormed ==
  /\ \A j \in 1..Len(drawings) : WellFormed(drawings[j])
  /\ pc # "panic"

SubsetsOfSize(S, size) == {T \in SUBSET S : Cardinality(T) = size}

RECURSIVE Ascending(_)
Ascending(S) ==
  IF S = {} THEN <<>>
  ELSE LET least == CHOOSE x \in S : \A y \in S : x <= y
       IN  <<least>> \o Ascending(S \ {least})

\* the sum of the values of a map of counters
MapTotal(m) ==
  LET counts == {m[k] : k \in DOMAIN m}
      RECURSIVE Total(_)
      Total(cs) ==
        IF cs = {} THEN 0
        ELSE LET c == CHOOSE x \in cs : TRUE
             IN  c * Cardinality({k \in DOMAIN m : m[k] = c}) + Total(cs \ {c})
  IN  Total(counts)

Max(S) == CHOOSE x \in S : \A y \in S : y <= x

\* the processed drawings (1-based positions) that hold every member of nums
DrawingsHolding(nums) ==
  {j \in 1..idx : Range(nums) \subseteq Range(drawings[j].Numbers)}

PatternsExact(patterns, size, perDrawing) ==
  /\ DOMAIN patterns =
       {Key(Ascending(T)) :
          T \in UNION {SubsetsOfSize(Range(drawings[j].Numbers), size) :
                         j \in 1..idx}}
  /\ \A key \in DOMAIN patterns :
       LET p == patterns[key]
       IN  /\ p.Key = key
           /\ Len(p.Numbers) = size
           /\ \A t \in 1..(size - 1) : p.Numbers[t] < p.Numbers[t + 1]
           /\ key = Key(p.Numbers)
           /\ p.Frequency = Cardinality(DrawingsHolding(p.Numbers))
           /\ p.LastSeen = Max(DrawingsHolding(p.Numbers)) - 1
  /\ MapTotal([key \in DOMAIN patterns |-> patterns[key].Frequency])
       = perDrawing * idx

\* C6: after accumulating drawings of 5 distinct numbers each, every pair,
\* triple and quad pattern is keyed by its members in ascending order joined
\* by "-", its Frequency is the number of processed drawings holding all its
\* members, its LastSeen is the largest index of such a drawing, and the
\* frequencies sum to 10n, 10n and 5n over n drawings
C6_CombinationPatterns ==
  (Accumulating /\ ProcessedWellFormed) =>
    /\ PatternsExact(pairPatterns, 2, 10)
    /\ PatternsExact(triplePatterns, 3, 10)
    /\ PatternsExact(quadPatterns, 4, 5)

\* three well-formed drawings processed, a pair seen twice and last at index
\* 2, a quad seen twice, and a triple seen only in the first drawing
C6_Witness ==
  /\ Accumulating /\ ProcessedWellFormed /\ idx = 3
  /\ \E key \in DOMAIN pairPatterns : pairPatterns[key].Frequency = 2
                                        /\ pairPatterns[key].LastSeen = 2
  /\ \E key \in DOMAIN quadPatterns : quadPatterns[key].Frequency = 2
  /\ \E key \in DOMAIN triplePatterns : triplePatterns[key].LastSeen = 0

OddCount(drawing) ==
  Cardinality({t \in 1..Len(drawing.Numbers) : drawing.Numbers[t] % 2 = 1})

SumRangeOf(drawing) == 20 * (SumSeq(drawing.Numbers) \div 20)

HasAdjacent(drawing) ==
  \E a, b \in Range(drawing.Numbers) : a - b = 1

\* C7: after idx drawings the odd/even counts sum to idx under labels
\* "{o}O-{e}E" with o+e = 5, the sum-range counts sum to idx under keys
\* 20*floor(sum/20), the decade counts sum to 5*idx under keys 0..4, and
\* ConsecutiveCount is the number of drawings with two numbers differing by
\* exactly 1 (so at most idx)
C7_PatternTallies ==
  Accumulating =>
    /\ MapTotal(patternStats.OddEvenPatterns) = idx
    /\ DOMAIN patternStats.OddEvenPatterns \subseteq
         {OddEvenLabel(o, 5 - o) : o \in 0..5}
    /\ \A o \in 0..5 :
         LET n == Cardinality({j \in 1..idx : OddCount(drawings[j]) = o})
             label == OddEvenLabel(o, 5 - o)
         IN  IF n = 0 THEN label \notin DOMAIN patternStats.OddEvenPatterns
             ELSE /\ label \in DOMAIN patternStats.OddEvenPatterns
                  /\ patternStats.OddEvenPatterns[label] = n
    /\ MapTotal(patternStats.SumRanges) = idx
    /\ DOMAIN patternStats.SumRanges = {SumRangeOf(drawings[j]) : j \in 1..idx}
    /\ \A key \in DOMAIN patternStats.SumRanges :
         /\ key % 20 = 0
         /\ patternStats.SumRanges[key] =
              Cardinality({j \in 1..idx : SumRangeOf(drawings[j]) = key})
    /\ MapTotal(patternStats.DecadeDistribution) = 5 * idx
    /\ DOMAIN patternStats.DecadeDistribution \subseteq 0..4
    /\ patternStats.ConsecutiveCount =
         Cardinality({j \in 1..idx : HasAdjacent(drawings[j])})
    /\ patternStats.ConsecutiveCount <= idx

\* three drawings processed, one of them with two adjacent pairs, one with
\* none
C7_Witness ==
  /\ Accumulating /\ idx = 3
  /\ patternStats.ConsecutiveCount = 1
  /\ \E j \in 1..idx :
       Cardinality({a \in Range(drawings[j].Numbers) :
                      a + 1 \in Range(drawings[j].Numbers)}) = 2
  /\ Cardinality(DOMAIN patternStats.OddEvenPatterns) >= 2

\* C8: the chi-square value is never negative and the randomness score lies
\* in [0, 100]; with zero drawings the chi-square value is 0 and the
\* randomness score is 100
C8_ChiSquareAndRandomness ==
  /\ FGeq(chiSquareValue, Zero)
  /\ ScoreAtLeast0(randomnessScore)
  /\ ScoreAtMost100(randomnessScore)
  /\ (Built /\ Len(drawings) = 0) =>
       chiSquareValue = Zero /\ ScoreIs100(randomnessScore)

\* an analyzer whose main-number chi-square exceeds its critical value (the
\* clamp acts) while the lucky-ball one does not
C8_Witness ==
  /\ Built /\ Len(drawings) >= 2
  /\ randomnessScore.mainRatio = One
  /\ FLess(randomnessScore.luckyRatio, One)
  /\ FGreater(chiSquareValue, mainCritical)

\* the score scoreNumbersByStrategy gives num in the current state
ScoreOf(strategy, num) ==
  StrategyScore(strategy, mainNumbers[num], num, Len(drawings), pairPatterns)

LuckyScoreOf(num) ==
  FAdd(FromInt(luckyBalls[num].TotalFrequency),
       FromInt(luckyBalls[num].RecentFrequency * 5))

\* C9 (as claimed): for every strategy and every analyzer, the scored list
\* has exactly one entry per main number 1..48, each entry's score is >= the
\* next entry's score, and no score is negative or NaN
C9_ScoresSortedAndFinite ==
  pc = "answered" =>
    /\ Len(scoredNumbers) = MainMax
    /\ {scoredNumbers[k].Number : k \in 1..Len(scoredNumbers)} = 1..MainMax
    /\ \A k \in 1..(Len(scoredNumbers) - 1) :
         FGeq(scoredNumbers[k].Score, scoredNumbers[k + 1].Score)
    /\ \A k \in 1..Len(scoredNumbers) :
         /\ ~scoredNumbers[k].Score.nan
         /\ ~FLess(scoredNumbers[k].Score, Zero)

\* C10: for every strategy and every analyzer, the recommended set has 5
\* pairwise-distinct main numbers in [1,48] in ascending order and a lucky
\* ball in [1,18]; no unselected number has a strictly higher score than a
\* selected one, and no lucky ball has a strictly higher score than the one
\* chosen
C10_RecommendedSet ==
  pc = "answered" =>
    LET set == recommendation
        chosen == Range(set.Numbers)
        entries == 1..Len(scoredNumbers)
    IN  /\ Len(set.Numbers) = 5
        /\ \A t \in 1..4 : set.Numbers[t] < set.Numbers[t + 1]
        /\ chosen \subseteq 1..MainMax
        /\ set.LuckyBall \in 1..LuckyMax
        /\ \A in \in entries : \A out \in entries :
             (/\ scoredNumbers[in].Number \in chosen
              /\ scoredNumbers[out].Number \notin chosen)
               => ~FGreater(scoredNumbers[out].Score, scoredNumbers[in].Score)
        /\ \A ball \in 1..LuckyMax :
             ~FGreater(LuckyScoreOf(ball), LuckyScoreOf(set.LuckyBall))

\* a "balanced" recommendation over three drawings in which more than five
\* numbers have a positive score, some unselected number scoring strictly
\* less than every selected one, and lucky balls of different scores
C10_Witness ==
  /\ pc = "answered" /\ Len(drawings) = 3
  /\ recommendation.Strategy = "balanced"
  /\ Cardinality({num \in 1..MainMax : FGreater(ScoreOf("balanced", num), Zero)}) > 5
  /\ \E out \in (1..MainMax) \ Range(recommendation.Numbers) :
       /\ FGreater(ScoreOf("balanced", out), Zero)
       /\ \A in \in Range(recommendation.Numbers) :
            FLess(ScoreOf("balanced", out), ScoreOf("balanced", in))
  /\ \E ball \in 1..LuckyMax :
       /\ luckyBalls[ball].TotalFrequency > 0
       /\ FLess(LuckyScoreOf(ball), LuckyScoreOf(recommendation.LuckyBall))

(* --------------------- the engine's functions (claims) ---------------- *)

\* the call of fn has returned
Returned(fn) == call.done /\ call.fn = fn

\* the date lies in the range that runs from m1/d1 to m2/d2, m2 the month
\* after m1
FromTo(date, m1, d1, m2, d2) ==
  (date.m = m1 /\ date.d >= d1) \/ (date.m = m2 /\ date.d <= d2)

\* the documented ranges of the twelve signs
SignRanges ==
  <<<<"Capricorn", 12, 22, 1, 19>>, <<"Aquarius", 1, 20, 2, 18>>,
    <<"Pisces", 2, 19, 3, 20>>, <<"Aries", 3, 21, 4, 19>>,
    <<"Taurus", 4, 20, 5, 20>>, <<"Gemini", 5, 21, 6, 20>>,
    <<"Cancer", 6, 21, 7, 22>>, <<"Leo", 7, 23, 8, 22>>,
    <<"Virgo", 8, 23, 9, 22>>, <<"Libra", 9, 23, 10, 22>>,
    <<"Scorpio", 10, 23, 11, 21>>, <<"Sagittarius", 11, 22, 12, 21>>>>

\* C17: getZodiacSign maps every calendar date, February 29 included, to the
\* one sign whose documented range holds the date (Capricorn Dec 22-Jan 19,
\* Aquarius Jan 20-Feb 18, ..., Sagittarius Nov 22-Dec 21), never to "Unknown"
C17_ZodiacSigns ==
  Returned("getZodiacSign") =>
    LET date == call.in.date
        holding == {k \in 1..12 :
                      FromTo(date, SignRanges[k][2], SignRanges[k][3],
                             SignRanges[k][4], SignRanges[k][5])}
    IN  /\ Cardinality(holding) = 1
        /\ \A k \in holding : call.out = SignRanges[k][1]
        /\ call.out # "Unknown"

\* the sign of February 29 has been asked for
C17_Witness ==
  /\ Returned("getZodiacSign")
  /\ call.in.date = [y |-> 2024, m |-> 2, d |-> 29]
  /\ call.out = "Pisces"

\* the documented ranges of the four seasons: first month and day, last
\* month and day
SeasonRanges ==
  <<<<"Spring", 3, 20, 6, 20>>, <<"Summer", 6, 21, 9, 22>>,
    <<"Autumn", 9, 23, 12, 20>>, <<"Winter", 12, 21, 3, 19>>>>

\* the date lies from m1/d1 to m2/d2, the range possibly running over the
\* end of the year
Within(date, m1, d1, m2, d2) ==
  LET at == date.m * 100 + date.d
      from == m1 * 100 + d1
      to == m2 * 100 + d2
  IN  IF from <= to THEN from <= at /\ at <= to ELSE at >= from \/ at <= to

\* C18: getSeasonalPhase maps every calendar date to the one season whose
\* range holds it: Spring Mar 20-Jun 20, Summer Jun 21-Sep 22, Autumn
\* Sep 23-Dec 20, Winter Dec 21-Mar 19; the ranges leave no gap and do not
\* overlap
C18_SeasonalPhases ==
  Returned("getSeasonalPhase") =>
    LET date == call.in.date
        holding == {k \in 1..4 :
                      Within(date, SeasonRanges[k][2], SeasonRanges[k][3],
                             SeasonRanges[k][4], SeasonRanges[k][5])}
    IN  /\ Cardinality(holding) = 1
        /\ \A k \in holding : call.out = SeasonRanges[k][1]

\* the season of the last day of spring has been asked for
C18_Witness ==
  /\ Returned("getSeasonalPhase")
  /\ call.in.date = [y |-> 2024, m |-> 6, d |-> 20]
  /\ call.out = "Spring"

\* the eight names in the order of the cycle
PhaseNames ==
  <<"New Moon", "Waxing Crescent", "First Quarter", "Waxing Gibbous",
    "Full Moon", "Waning Gibbous", "Last Quarter", "Waning Crescent">>

\* C19: for every instant, before or after the reference new moon,
\* calculateMoonPhase returns a phase in [0, 1) and an illumination in
\* [0, 1]; getMoonPhaseName maps every phase of [0, 1) to the name of its
\* sixteenths bucket, the first and the last sixteenth both "New Moon"
C19_MoonPhase ==
  /\ Returned("calculateMoonPhase") =>
       /\ FGeq(call.out.phase, Zero) /\ FLess(call.out.phase, One)
       /\ FGeq(call.out.illumination, Zero)
       /\ FGeq(One, call.out.illumination)
  /\ Returned("getMoonPhaseName") =>
       LET sixteenth == Floor(FMul(call.in, FromInt(16)))
       IN  call.out = PhaseNames[(((sixteenth + 1) \div 2) % 8) + 1]

\* the phase of an instant before the reference new moon has been computed
\* and is not zero
C19_Witness ==
  /\ Returned("calculateMoonPhase")
  /\ MinutesBetween(call.in, refNewMoon) < 0
  /\ FGreater(call.out.phase, Zero)

\* C16 (as claimed): for every instant, those before the J2000 epoch
\* included, calculatePlanetaryPositions returns the five planets Mercury,
\* Venus, Mars, Jupiter and Saturn, each with an angle a, 0 <= a < 360
C16_PlanetaryAngles ==
  Returned("calculatePlanetaryPositions") =>
    /\ DOMAIN call.out = {"Mercury", "Venus", "Mars", "Jupiter", "Saturn"}
    /\ \A planet \in DOMAIN call.out :
         /\ FGeq(call.out[planet], Zero)
         /\ FLess(call.out[planet], FromInt(360))

CorrIsNaN(c) == c.sq.nan

\* |t|/(|t| + 10) is NaN for a NaN and for an infinite t
PIsNaN(p) == p.tSq.nan \/ IsInf(p.tSq)

\* pValue = 1: t = 0
PIsOne(p) == XIsZero(p.tSq)

\* pValue <= 0.05 for a number pValue: |t| >= 190
PAtMost5Percent(p) == ~PIsNaN(p) /\ FGeq(p.tSq, FromInt(36100))

\* every point of the series is the same value (a single point included)
ConstantSeries(s) == Len(s) >= 1 /\ \A k \in 1..Len(s) : s[k] = s[1]

\* the result is exactly (0, 1)
IsZeroOne(out) ==
  /\ out.correlation.sign = 0
  /\ XIsZero(out.correlation.sq)
  /\ PIsOne(out.pValue)

\* C13 (as claimed): calculatePearsonCorrelation returns exactly (0, 1) when
\* the inputs differ in length, when either is empty, and when either series
\* is constant (a single point included); it never returns NaN in these cases
C13_DegenerateInputsGiveZeroOne ==
  Returned("calculatePearsonCorrelation") =>
    LET x == call.in.x
        y == call.in.y
    IN  (\/ Len(x) # Len(y)
         \/ Len(x) = 0
         \/ Len(y) = 0
         \/ ConstantSeries(x)
         \/ ConstantSeries(y))
          => /\ ~CorrIsNaN(call.out.correlation)
             /\ ~PIsNaN(call.out.pValue)
             /\ IsZeroOne(call.out)

AllFinite(s) == \A k \in 1..Len(s) : IsFinite(s[k])

\* C14 (as claimed): for finite inputs of equal length, neither of them
\* constant, calculatePearsonCorrelation returns a correlation in [-1, 1] and
\* a p-value that is a number in [0, 1], never NaN; for exactly two points
\* and for perfectly correlated series the p-value is at most 0.05
C14_FiniteInputsGiveNumbers ==
  Returned("calculatePearsonCorrelation") =>
    LET x == call.in.x
        y == call.in.y
        out == call.out
    IN  (/\ Len(x) = Len(y)
         /\ Len(x) > 0
         /\ AllFinite(x)
         /\ AllFinite(y)
         /\ ~ConstantSeries(x)
         /\ ~ConstantSeries(y))
          => /\ ~CorrIsNaN(out.correlation)
             /\ IsFinite(out.correlation.sq)
             /\ FGeq(One, out.correlation.sq)
             /\ ~PIsNaN(out.pValue)
             /\ FGeq(out.pValue.tSq, Zero)
             /\ (Len(x) = 2 \/ out.correlation.sq = One)
                  => PAtMost5Percent(out.pValue)

\* C15 (as claimed): the text of an interpretation is never empty and holds
\* no rendering of NaN or of an infinity, for every (correlation, pValue)
\* pair, NaN and the infinities included
C15_InterpretationHasNoNaN ==
  (call.done /\ call.fn \in Interpreters) =>
    /\ call.out # <<>>
    /\ \A k \in 1..Len(call.out) :
         /\ call.out[k] # ""
         /\ call.out[k] \notin {"NaN", "+Inf", "-Inf"}

(* ---------------------- the correlation engine (claims) --------------- *)

\* the last answer of PredictBasedOnCosmicConditions
LastAnswer == answers[Len(answers)]

\* C11: whatever the date and the cache (today's record absent, complete, or
\* holding only the moon fields), PredictBasedOnCosmicConditions returns 5
\* pairwise-distinct numbers in [1,48]: the repair num = (num mod 48) + 1
\* ends on an unused number of that range
C11_FiveDistinctNumbers ==
  prediction # <<>> =>
    /\ Len(prediction) = 5
    /\ \A k \in 1..5 : prediction[k] \in 1..48
    /\ \A k \in 1..5 : \A l \in 1..5 : k # l => prediction[k] # prediction[l]

\* a prediction made on a Sunday from a cached record with only the moon
\* fields: the day gives 1, the empty zodiac sign gives 1 as well and is
\* moved to 2, the defaults 23 and 42 fill the last two places
C11_Witness ==
  /\ prediction # <<>>
  /\ LastAnswer.date = now.date
  /\ DateKey(now) \in DOMAIN cosmicData
  /\ IsNil(cosmicData[DateKey(now)].SolarActivity)
  /\ prediction[2] = 1
  /\ prediction[3] = 2
  /\ prediction[4] = 23
  /\ prediction[5] = 42

\* C12 (as claimed): the prediction is a function of today's date alone: two
\* predictions asked on the same date are the same five numbers, whether
\* today's record was absent and computed on demand, cached as a drawn date,
\* or cached only because its year was enriched
C12_SameDateSameNumbers ==
  (Len(answers) = 2 /\ answers[1].date = answers[2].date)
    => answers[1].numbers = answers[2].numbers

\* every field of the record has been assigned
Populated(cosmic) ==
  /\ cosmic.MoonPhaseName # ""
  /\ cosmic.ZodiacSign # ""
  /\ cosmic.SeasonalPhase # ""
  /\ cosmic.DayOfWeek # ""
  /\ DOMAIN cosmic.PlanetaryPositions = Planets
  /\ ~IsNil(cosmic.SolarActivity)
  /\ ~IsNil(cosmic.WeatherData)
  /\ cosmic.GeomagneticIndex # Zero

\* C20 (as claimed): after EnrichWithCosmicData the cache holds a record for
\* every day of every year with a drawing, and each of these records, not
\* only those of drawn dates, has its astronomical and its mock fields
\* populated
C20_WholeYearPopulated ==
  cosmicData # EmptyMap =>
    \A k \in 1..Len(drawings) :
      \A date \in DaysOfYear(drawings[k].Date.y) :
        /\ DateKey(At(date, 0)) \in DOMAIN cosmicData
        /\ Populated(cosmicData[DateKey(At(date, 0))])

(* ------------------- claims about the analysis pass ------------------- *)

\* how many times num was drawn as a main number in the first k drawings,
\* a number repeated within one drawing counting each time
TimesDrawn(num, k) ==
  Cardinality({p \in (1..k) \X (1..5) : drawings[p[1]].Numbers[p[2]] = num})

\* C24: cancellation of the analysis pass is all-or-nothing: once the row
\* loop or the drawing loop has found the context cancelled, NewAnalyzer has
\* failed and no analyzer is left; whenever NewAnalyzer has succeeded the
\* context was never found cancelled, every parsed drawing has been
\* accumulated (the loop index is at the end, and each number's TotalFrequency
\* counts its appearances in all drawings), and the statistics and chi-square
\* passes have run over all of them
C24_CancellationAllOrNothing ==
  /\ ctxDone => (pc = "error" /\ FreshAnalysis)
  /\ pc = "error" => ctxDone
  /\ Built =>
       LET n == Len(drawings)
       IN  /\ ~ctxDone
           /\ idx = n
           /\ \A num \in 1..MainMax :
                /\ mainNumbers[num].TotalFrequency = TimesDrawn(num, n)
                /\ mainNumbers[num].ExpectedFrequency = Rat(n * 5, MainMax)
                /\ mainNumbers[num].ChiSquareComponent =
                     ChiComponent(mainNumbers[num])
           /\ \A num \in 1..LuckyMax :
                /\ luckyBalls[num].TotalFrequency =
                     Len(LuckyAppearances(num, n))
                /\ luckyBalls[num].ExpectedFrequency = Rat(n, LuckyMax)
           /\ chiSquareValue =
                FAdd(ChiSum(mainNumbers, 1, MainMax),
                     ChiSum(luckyBalls, 1, LuckyMax))

\* an analyzer returned for a file of three drawings, all of them accumulated
\* and the chi-square value computed
C24_Witness ==
  /\ Built /\ ~ctxDone
  /\ Len(drawings) = 3 /\ idx = 3
  /\ FGreater(chiSquareValue, Zero)
  /\ \E num \in 1..MainMax : mainNumbers[num].TotalFrequency = 3

\* the sums of TotalFrequency and of RecentFrequency over a table
TotalOf(infos) ==
  MapTotal([num \in DOMAIN infos |-> infos[num].TotalFrequency])

RecentOf(infos) ==
  MapTotal([num \in DOMAIN infos |-> infos[num].RecentFrequency])

\* C27: after every prefix of k = idx processed drawings the TotalFrequency
\* values of the 48 main numbers sum to 5k and those of the 18 lucky balls
\* to k; the RecentFrequency values of the main numbers sum to
\* 5 * min(k, RecentWindow) and those of the lucky balls to
\* min(k, RecentWindow)
C27_FrequencyConservation ==
  Accumulating =>
    LET k == idx
        recent == IF k < config.RecentWindow THEN k ELSE config.RecentWindow
    IN  /\ TotalOf(mainNumbers) = 5 * k
        /\ TotalOf(luckyBalls) = k
        /\ RecentOf(mainNumbers) = 5 * recent
        /\ RecentOf(luckyBalls) = recent

\* three drawings processed with a recent window of two: the third drawing
\* adds to the totals only; one drawing repeats a number
C27_Witness ==
  /\ Accumulating /\ idx = 3 /\ config.RecentWindow = 2
  /\ TotalOf(mainNumbers) = 15 /\ RecentOf(mainNumbers) = 10
  /\ \E j \in 1..3 : Cardinality(Range(drawings[j].Numbers)) < 5

\* every drawing has 5 distinct main numbers
AllDistinct == \A j \in 1..Len(drawings) : WellFormed(drawings[j])

\* C29: when every drawing has 5 distinct numbers, the "pattern" score of
\* each number (the sum of Frequency over the recorded pairs holding it) is 4
\* times its TotalFrequency, so the list scored by "pattern" is in
\* non-increasing order of TotalFrequency, as the list scored by "frequency"
\* is
C29_PatternScoreIsFourTimesFrequency ==
  (Built /\ AllDistinct) =>
    /\ \A num \in 1..MainMax :
         /\ PairBonus(pairPatterns, num) = 4 * mainNumbers[num].TotalFrequency
         /\ ScoreOf("pattern", num) =
              FMul(FromInt(4), ScoreOf("frequency", num))
    /\ (pc = "answered" /\ recommendation.Strategy \in {"pattern", "frequency"}) =>
         \A k \in 1..(Len(scoredNumbers) - 1) :
           mainNumbers[scoredNumbers[k].Number].TotalFrequency >=
             mainNumbers[scoredNumbers[k + 1].Number].TotalFrequency

\* the "pattern" list of an analyzer of three drawings of distinct numbers:
\* a number drawn in all three scores 12, one drawn once scores 4
C29_Witness ==
  /\ pc = "answered" /\ recommendation.Strategy = "pattern"
  /\ Len(drawings) = 3 /\ AllDistinct
  /\ scoredNumbers[1].Score = FromInt(12)
  /\ \E k \in 1..Len(scoredNumbers) : scoredNumbers[k].Score = FromInt(4)

(* ------------------ claims about the operations called ---------------- *)

\* what the operation op was given and gave back, when it is the last called
Called(op) == reply.op = op

\* C21: a call of EnrichWithCosmicData with a cancelled context enriches no
\* date and reports an aborted outcome; in particular a call made with an
\* already-cancelled context adds no entries to the cache
C21_CancelledEnrichmentAddsNothing ==
  (Called("EnrichWithCosmicData") /\ reply.in.ctxCancelled)
    => /\ reply.out.added = 0
       /\ reply.out.err # "nil"

\* C22: RunAnalysis completes without a crash and with a nil error in every
\* output mode, for every analyzer NewAnalyzer returns, one with zero
\* drawings included (the context not being cancelled)
C22_RunAnalysisCompletes ==
  (Called("RunAnalysis") /\ ~reply.in.ctxCancelled)
    => /\ pc # "panic"
       /\ reply.out = [err |-> "nil"]

\* C23: GenerateRecommendations(count) returns min(max(count, 0), 5) sets and
\* no error when no iteration finds the context cancelled, one set per
\* strategy in the order balanced, hot, overdue, pattern, frequency, each
\* carrying its strategy name; when the iteration `stop` finds the context
\* cancelled it returns the stop - 1 sets made so far with the context error
C23_RecommendationSets ==
  Called("GenerateRecommendations")
    => LET count == reply.in.count
           stop == reply.in.stop
           wanted == IF count < 0 THEN 0 ELSE IF count < 5 THEN count ELSE 5
           order == <<"balanced", "hot", "overdue", "pattern", "frequency">>
       IN  /\ pc # "panic"
           /\ "recommendations" \in DOMAIN reply.out
           /\ \A k \in 1..Len(reply.out.recommendations) :
                reply.out.recommendations[k].Strategy = order[k]
           /\ IF stop <= wanted
              THEN /\ Len(reply.out.recommendations) = stop - 1
                   /\ reply.out.err = "context canceled"
              ELSE /\ Len(reply.out.recommendations) = wanted
                   /\ reply.out.err = "nil"

\* the correlation analysis has just run (alone or inside RunAnalysis)
Analysed == Called("AnalyzeCorrelations") \/ Called("RunAnalysis")

\* the results of the three Pearson analyses, in the order emitted
ContinuousResults ==
  SelectSeq(correlationResults,
            LAMBDA result :
              result.SubFactor \in {"Average Number Value",
                                    "Solar Wind vs High Numbers",
                                    "Temperature vs Even/Odd Ratio"})

\* how many drawings have a cached record for their date that Has what the
\* analysis needs
DrawingsWith(Has(_)) ==
  Cardinality({k \in 1..Len(drawings) :
                 LET key == DateKey(At(drawings[k].Date, 0))
                 IN  key \in DOMAIN cosmicData /\ Has(cosmicData[key])})

\* correlation 0, p-value 1, sample size 0, significance "None"
IsSentinel(result) ==
  /\ result.Correlation = ZeroOne.correlation
  /\ result.PValue = ZeroOne.pValue
  /\ result.SampleSize = 0
  /\ result.Significance = "None"

\* C25: whenever AnalyzeCorrelations has run, before or after enrichment, it
\* has emitted the three continuous results (moon phase vs average number,
\* solar wind vs high-number count, temperature vs even ratio), each with
\* SampleSize equal to the number of drawings whose date has the needed
\* cached data; with an empty cache or zero drawings the three are the
\* sentinel: correlation 0, p-value 1, sample size 0, significance "None"
C25_ThreeContinuousResults ==
  Analysed
    => /\ [k \in 1..Len(ContinuousResults) |->
             <<ContinuousResults[k].Factor, ContinuousResults[k].SubFactor>>]
          = << <<"Moon Phase", "Average Number Value">>,
               <<"Solar Activity", "Solar Wind vs High Numbers">>,
               <<"Weather", "Temperature vs Even/Odd Ratio">> >>
       /\ ContinuousResults[1].SampleSize = DrawingsWith(LAMBDA cosmic : TRUE)
       /\ ContinuousResults[2].SampleSize
          = DrawingsWith(LAMBDA cosmic : ~IsNil(cosmic.SolarActivity))
       /\ ContinuousResults[3].SampleSize
          = DrawingsWith(LAMBDA cosmic : ~IsNil(cosmic.WeatherData))
       /\ (cosmicData = EmptyMap \/ Len(drawings) = 0)
            => \A k \in 1..3 : IsSentinel(ContinuousResults[k])

\* the analysis ran on two drawings before any enrichment and gave the three
\* sentinels
C25_Witness ==
  /\ Called("AnalyzeCorrelations")
  /\ Len(drawings) = 2
  /\ cosmicData = EmptyMap
  /\ Len(correlationResults) = 3
  /\ \A k \in 1..3 : IsSentinel(correlationResults[k])

\* the drawings whose cached record has the value group in the field named
DrawnIn(field, group) ==
  {k \in 1..Len(drawings) :
     LET key == DateKey(At(drawings[k].Date, 0))
     IN  key \in DOMAIN cosmicData /\ cosmicData[key][field] = group}

\* how often num is among the numbers of the drawings ks
TimesIn(ks, num) ==
  Cardinality({p \in ks \X (1..5) :
                 p[2] \in DOMAIN drawings[p[1]].Numbers
                 /\ drawings[p[1]].Numbers[p[2]] = num})

\* the count of the most frequent number of the drawings ks
WinningCount(ks) ==
  CHOOSE f \in 0..(5 * Cardinality(ks)) :
    /\ \E num \in 1..MainMax : TimesIn(ks, num) = f
    /\ \A num \in 1..MainMax : TimesIn(ks, num) <= f

\* the temporal result of a group: its winning number and that number's
\* share of the numbers drawn in the group
IsLuckyNumberOf(result, group, ks) ==
  /\ result.Factor = "Temporal"
  /\ result.SubFactor = group \o " Lucky Number"
  /\ result.Correlation = Rat(WinningCount(ks), 5 * Cardinality(ks))
  /\ \E num \in 1..MainMax :
       /\ TimesIn(ks, num) = WinningCount(ks)
       /\ result.Interpretation[2] = ToString(num)

\* a result for the group if and only if its winning count exceeds 10
ReportedByThreshold(field, group) ==
  (WinningCount(DrawnIn(field, group)) > 10)
    <=> \E k \in DOMAIN correlationResults :
          IsLuckyNumberOf(correlationResults[k], group, DrawnIn(field, group))

\* C26: the temporal analysis emits a lucky-number result, with the number
\* and its in-group frequency ratio, for each day of the week and for each
\* season whose most frequent number's count exceeds 10, and none for a
\* group whose winning count does not exceed 10
C26_DaysAndSeasonsReported ==
  Analysed
    => /\ \A day \in {"Monday", "Tuesday", "Wednesday", "Thursday", "Friday",
                      "Saturday", "Sunday"} :
            ReportedByThreshold("DayOfWeek", day)
       /\ \A season \in {"Spring", "Summer", "Autumn", "Winter"} :
            ReportedByThreshold("SeasonalPhase", season)

\* the texts the interpreters give when they find no significant correlation
NoCorrelationTexts ==
  {"No significant correlation between moon phase and number patterns",
   "Solar activity shows no significant impact on number selection",
   "Weather conditions show no correlation with number patterns"}

\* C28: for every continuous result of AnalyzeCorrelations the significance
\* label is "None" if and only if the interpretation is the text for no
\* significant correlation, whatever p-value the correlation returned
C28_LabelAgreesWithInterpretation ==
  Analysed
    => \A k \in 1..Len(ContinuousResults) :
         (ContinuousResults[k].Significance = "None")
           <=> (ContinuousResults[k].Interpretation[1] \in NoCorrelationTexts)

\* the operation op is called in this step
Calling(op) == reply' # reply /\ reply'.op = op

\* PredictBasedOnCosmicConditions gives an answer in this step
Predicting == prediction' # prediction \/ answers' # answers

\* C30: operations change only the state they own.  GetTopNumbers,
\* GetOverdueNumbers, GenerateRecommendations and
\* PredictBasedOnCosmicConditions leave the drawings, the per-number
\* statistics, the pattern maps, the cosmic-data cache and the correlation
\* results unchanged (a prediction for an uncached date is not written to
\* the cache); of the engine's and the analyzer's data
\* EnrichWithCosmicData changes only the cache and AnalyzeCorrelations
\* only the correlation results
C30_OperationsChangeOnlyTheirOwnState ==
  [][/\ (\/ Calling("GetTopNumbers")
         \/ Calling("GetOverdueNumbers")
         \/ Calling("GenerateRecommendations")
         \/ Predicting)
          => UNCHANGED <<analysis, cosmicData, correlationResults>>
     /\ Calling("EnrichWithCosmicData")
          => UNCHANGED <<analysis, config, correlationResults, prediction,
                         answers, scoredNumbers, recommendation>>
     /\ Calling("AnalyzeCorrelations")
          => UNCHANGED <<analysis, config, cosmicData, prediction, answers,
                         scoredNumbers, recommendation>>]_vars

\* a query has answered after a prediction for today, which the cache does
\* not hold, and after a correlation analysis: the cache is still empty and
\* the statistics of the two drawings and the results are in place
C30_Witness ==
  /\ Called("GetTopNumbers")
  /\ pc = "replied"
  /\ Len(drawings) = 2
  /\ answers # <<>>
  /\ DateKey(now) \notin DOMAIN cosmicData
  /\ Len(correlationResults) = 3
  /\ \A num \in 1..MainMax : mainNumbers[num].TotalFrequency = TimesDrawn(num, 2)

====
